---- MODULE Spec2Model ----
(***************************************************************************)
(* A model of the gorm facade type DB (the "Handle"): the copy-on-write    *)
(* fluent builder, the terminal operations and the callback chains they    *)
(* run, transaction control, and the association accessor.                 *)
(*                                                                         *)
(* The facade (DB and its methods) and the name cache are translated from  *)
(* the source.  The collaborators whose files are not part of the source   *)
(* tree (clone, search, Scope, the callback chains) are modelled from the  *)
(* design document and are marked as such where they are defined.          *)
(***************************************************************************)
EXTENDS Integers, Sequences, FiniteSets, TLC

VARIABLES
    handles,    \* the DB values handed out so far, in order of creation; 1 is Open's
    born,       \* for each handle: the call that produced it
    callers,    \* each concurrent caller's position inside a fluent call
    store,      \* the rows of the one table behind the connection
    resources,  \* the connection resources: the plain connection and the transactions
    lastOp,     \* what the last terminal operation did and returned
    assoc,      \* what the last Association call returned
    parent,     \* what every handle reaches through s.parent: callback, singularTable
    globals     \* the package variables: modelStructs, smap and smapMutex

vars == <<handles, born, callers, store, resources, lastOp, assoc, parent, globals>>

(***************************************************************************)
(* Bounds of the model.                                                    *)
(***************************************************************************)
MaxHandles == 3
NCallers == 2
MaxRows == 2
MaxTx == 2

Callers == 1..NCallers

NoError == "nil"
RecordNotFound == "RecordNotFound"
CantStartTransaction == "CantStartTransaction"
NoValidTransaction == "NoValidTransaction"

(***************************************************************************)
(* Criteria (type search).  Modelled from the design document, section 3:  *)
(* an ordered list of condition terms tagged with their combinator, the    *)
(* select/omit lists, order terms, limit, offset, group/having/join        *)
(* fragments, preload requests, the raw and unscoped flags and the seed    *)
(* attributes for "init" and "assign".                                     *)
(***************************************************************************)
Unset == -1
NoFragment == ""

emptySearch ==
    [conditions |-> <<>>, selects |-> NoFragment, omits |-> <<>>, orders |-> <<>>,
     limit |-> Unset, offset |-> Unset, group |-> NoFragment, having |-> NoFragment,
     joins |-> NoFragment, preload |-> <<>>, raw |-> FALSE, unscoped |-> FALSE,
     initAttrs |-> <<>>, assignAttrs |-> <<>>, tableName |-> NoFragment]

\* A condition term: an equality predicate on one column of the record type.
Cols == {"name", "age"}
Term(c, v) == [col |-> c, val |-> v]
TermA == Term("name", 1)
TermB == Term("age", 2)
Terms == {TermA, TermB}

searchWhere(s, t) == [s EXCEPT !.conditions = Append(@, [comb |-> "AND", term |-> t])]
searchOr(s, t) == [s EXCEPT !.conditions = Append(@, [comb |-> "OR", term |-> t])]
searchNot(s, t) == [s EXCEPT !.conditions = Append(@, [comb |-> "NOT", term |-> t])]
searchLimit(s, n) == [s EXCEPT !.limit = n]
searchOffset(s, n) == [s EXCEPT !.offset = n]
\* An Order that ignores the reorder flag and always appends
searchOrderAppends(s, a) == [s EXCEPT !.orders = Append(@, a[1])]

\* a = <<value, reorder>>
searchOrder(s, a) ==
    IF a[2] THEN [s EXCEPT !.orders = <<a[1]>>]
    ELSE [s EXCEPT !.orders = Append(@, a[1])]
searchSelect(s, q) == [s EXCEPT !.selects = q]
searchOmit(s, c) == [s EXCEPT !.omits = <<c>>]
searchGroup(s, q) == [s EXCEPT !.group = q]
searchHaving(s, q) == [s EXCEPT !.having = q]
searchJoins(s, q) == [s EXCEPT !.joins = q]
searchPreload(s, c) == [s EXCEPT !.preload = Append(@, c)]
searchUnscoped(s) == [s EXCEPT !.unscoped = TRUE]
searchAttrs(s, t) == [s EXCEPT !.initAttrs = Append(@, t)]
searchAssign(s, t) == [s EXCEPT !.assignAttrs = Append(@, t)]
searchRaw(s, b) == [s EXCEPT !.raw = b]
searchTable(s, n) == [s EXCEPT !.tableName = n]
\* search.clone: a deep copy (values are immutable here, so the copy is the value)
searchClone(s) == s

(***************************************************************************)
(* The handle (type DB).                                                   *)
(***************************************************************************)
EmptyValues == [n \in {} |-> 0]
NoValue == [id |-> -1, name |-> 0, age |-> 0]

PlainConn == 0

\* The handle Open returns
OpenDB ==
    [Value |-> NoValue, Error |-> NoError, RowsAffected |-> 0, db |-> PlainConn,
     parent |-> 1, search |-> emptySearch, logMode |-> 0, values |-> EmptyValues]

\* DB.clone: shares the connection and the parent, copies the criteria; the named
\* values are carried over into a store of the clone's own.
clone(s) == [s EXCEPT !.search = searchClone(s.search)]

(***************************************************************************)
(* The fluent builder methods of DB.  Each is s.clone().search.M(...).db:  *)
(* the search's db is the clone that owns it, so the result is the clone   *)
(* with M applied to its criteria.                                         *)
(***************************************************************************)
DBWhere(c, a) == [c EXCEPT !.search = searchWhere(@, a)]
DBOr(c, a) == [c EXCEPT !.search = searchOr(@, a)]
DBNot(c, a) == [c EXCEPT !.search = searchNot(@, a)]
DBLimit(c, a) == [c EXCEPT !.search = searchLimit(@, a)]
DBOffset(c, a) == [c EXCEPT !.search = searchOffset(@, a)]
DBOrder(c, a) == [c EXCEPT !.search = searchOrder(@, a)]
DBSelect(c, a) == [c EXCEPT !.search = searchSelect(@, a)]
DBOmit(c, a) == [c EXCEPT !.search = searchOmit(@, a)]
DBGroup(c, a) == [c EXCEPT !.search = searchGroup(@, a)]
DBHaving(c, a) == [c EXCEPT !.search = searchHaving(@, a)]
DBJoins(c, a) == [c EXCEPT !.search = searchJoins(@, a)]
DBUnscoped(c) == [c EXCEPT !.search = searchUnscoped(@)]
DBAttrs(c, a) == [c EXCEPT !.search = searchAttrs(@, a)]
DBAssign(c, a) == [c EXCEPT !.search = searchAssign(@, a)]
DBPreload(c, a) == [c EXCEPT !.search = searchPreload(@, a)]
\* Raw: s.clone().search.Raw(true).Where(sql, values...).db
DBRaw(c, a) == [c EXCEPT !.search = searchWhere(searchRaw(@, TRUE), a)]
\* Model: c := s.clone(); c.Value = value
DBModel(c, v) == [c EXCEPT !.Value = v]
\* Table: clone.search.Table(name); clone.Value = nil
DBTable(c, n) == [c EXCEPT !.search = searchTable(@, n), !.Value = NoValue]
\* New: clone.search = nil; clone.Value = nil
DBNew(c) == [c EXCEPT !.search = emptySearch, !.Value = NoValue]

CriteriaMethods ==
    {"Where", "Or", "Not", "Limit", "Offset", "Order", "Select", "Omit", "Group",
     "Having", "Joins", "Preload", "Unscoped", "Attrs", "Assign", "Raw"}

\* The arguments the model draws for each method
FluentArgs(m) ==
    CASE m = "Where" -> Terms
      [] m \in {"Or", "Raw"} -> {TermA}
      [] m \in {"Not", "Attrs", "Assign"} -> {TermB}
      [] m \in {"Limit", "Offset"} -> {1}
      [] m = "Order" -> {<<"a", FALSE>>, <<"b", FALSE>>, <<"b", TRUE>>}
      [] m \in {"Select", "Omit", "Group", "Having", "Joins", "Preload", "Table"} -> {"q"}
      [] m = "Model" -> {[id |-> 1, name |-> 1, age |-> 0]}
      [] OTHER -> {0}

\* What the method does to the clone c it was called through
fluentApply(m, c, a) ==
    CASE m = "Where" -> DBWhere(c, a)
      [] m = "Or" -> DBOr(c, a)
      [] m = "Not" -> DBNot(c, a)
      [] m = "Limit" -> DBLimit(c, a)
      [] m = "Offset" -> DBOffset(c, a)
      [] m = "Order" -> DBOrder(c, a)
      [] m = "Select" -> DBSelect(c, a)
      [] m = "Omit" -> DBOmit(c, a)
      [] m = "Group" -> DBGroup(c, a)
      [] m = "Having" -> DBHaving(c, a)
      [] m = "Joins" -> DBJoins(c, a)
      [] m = "Preload" -> DBPreload(c, a)
      [] m = "Unscoped" -> DBUnscoped(c)
      [] m = "Attrs" -> DBAttrs(c, a)
      [] m = "Assign" -> DBAssign(c, a)
      [] m = "Raw" -> DBRaw(c, a)
      [] m = "Model" -> DBModel(c, a)
      [] m = "Table" -> DBTable(c, a)
      [] m = "New" -> DBNew(c)

Idle == [pc |-> "idle"]
Pending == {p \in Callers : callers[p].pc = "cloned"}

\* First half of a fluent call by caller p on handle h: s.clone().  Every builder
\* method starts this way; which method p is in shows to nobody until it returns,
\* so the method and its argument are drawn at the return.
FluentClone(p, h) ==
    /\ callers[p].pc = "idle"
    /\ Len(handles) + Cardinality(Pending) < MaxHandles
    /\ callers' = [callers EXCEPT ![p] =
                     [pc |-> "cloned", recv |-> h, c |-> clone(handles[h])]]
    /\ UNCHANGED <<handles, born, store, resources, lastOp, assoc, parent, globals>>

\* A fluent call that forgets the clone: the method writes into the receiver's own
\* criteria and returns the receiver.
FluentReturnInPlace(p, m, a) ==
    /\ callers[p].pc = "cloned"
    /\ LET f == callers[p] IN
         handles' = [handles EXCEPT ![f.recv] = fluentApply(m, handles[f.recv], a)]
    /\ callers' = [callers EXCEPT ![p] = Idle]
    /\ UNCHANGED <<born, store, resources, lastOp, assoc, parent, globals>>

\* Second half: method m is applied to the clone's criteria and the clone is
\* returned to the caller.
FluentReturn(p, m, a) ==
    /\ callers[p].pc = "cloned"
    /\ LET f == callers[p] IN
         /\ handles' = Append(handles, fluentApply(m, f.c, a))
         /\ born' = Append(born,
                [kind |-> "fluent", from |-> f.recv, method |-> m, arg |-> a,
                 overlap |-> \E q \in Pending \ {p} : callers[q].recv = f.recv])
    /\ callers' = [callers EXCEPT ![p] = Idle]
    /\ UNCHANGED <<store, resources, lastOp, assoc, parent, globals>>

(***************************************************************************)
(* The initial state: Open has returned handle 1 over a plain connection   *)
(* to an empty table; nobody is inside a call.                             *)
(***************************************************************************)
NoOp == [op |-> "none"]
NoAssoc == [made |-> FALSE]

\* the default chains
DefaultCallback ==
    [creates |-> <<"gorm:before_create", "gorm:create", "gorm:after_create">>,
     updates |-> <<"gorm:before_update", "gorm:update", "gorm:after_update">>,
     deletes |-> <<"gorm:before_delete", "gorm:delete", "gorm:after_delete">>,
     queries |-> <<"gorm:query", "gorm:after_query">>]

\* The parent handle's shared fields as Open leaves them.  customized is the
\* set of handles through which Callback() has been called.
OpenParent == [callback |-> DefaultCallback, singularTable |-> FALSE, customized |-> {}]

\* smapMutex: the callers holding the read lock and the caller holding the write
\* lock (0: nobody)
Unlocked == [readers |-> {}, writer |-> 0]

\* The package variables at start: both caches empty, the lock free.  computed
\* counts, for each name, the uncached computations of ToDBName.
InitGlobals ==
    [modelStructs |-> EmptyValues, smap |-> EmptyValues, smapMutex |-> Unlocked,
     computed |-> EmptyValues]

Init ==
    /\ handles = <<OpenDB>>
    /\ born = <<[kind |-> "open"]>>
    /\ callers = [p \in Callers |-> Idle]
    /\ store = {}
    /\ resources = <<>>
    /\ lastOp = NoOp
    /\ assoc = NoAssoc
    /\ parent = OpenParent
    /\ globals = InitGlobals

(***************************************************************************)
(* The builder on its own: concurrent callers branching handles.           *)
(***************************************************************************)
NextCriteria ==
    \/ \E p \in Callers, h \in 1..Len(handles) : FluentClone(p, h)
    \/ \E p \in Callers, m \in CriteriaMethods :
         \E a \in FluentArgs(m) : FluentReturn(p, m, a)

SpecCriteria == Init /\ [][NextCriteria]_vars

(***************************************************************************)
(* Scope: the context of one terminal operation.  NewScope is in the       *)
(* source; the Scope's own methods and the callback chains are modelled    *)
(* from the design document, sections 4.4, 4.5 and 7.                      *)
(*                                                                         *)
(* A scope carries, besides its fields, a log of what ran against it:      *)
(* chains (the chains callCallbacks was called with), ran (the steps that  *)
(* executed), raised (the errors steps set) and inited (initialize ran).   *)
(***************************************************************************)
ErrInjected == "ErrInjected"
ErrDuplicate == "ErrDuplicate"

\* NewScope(ctx, value): dbClone := db.clone(); dbClone.Value = value;
\* if ctx != nil { _, ctx = opentracing.StartSpanFromContext(ctx, db.source) }
\* Scope{db: dbClone, Search: dbClone.search.clone(), Value: value, ctx: ctx}
\* Every call in the model passes a non-nil context, so each scope starts one
\* span (spans).  started holds what the scope looked like each time a chain was
\* started on it.
NewScope(db, value) ==
    LET dbClone == [clone(db) EXCEPT !.Value = value] IN
      [db |-> dbClone, Search |-> searchClone(dbClone.search), Value |-> value,
       instance |-> EmptyValues, spans |-> 1, started |-> <<>>,
       chains |-> <<>>, ran |-> <<>>, raised |-> <<>>, inited |-> FALSE]

\* writing name |-> v into a named-value store
putValue(vals, name, v) ==
    [n \in (DOMAIN vals) \cup {name} |-> IF n = name THEN v ELSE vals[n]]

\* DB.InstantSet: s.values[name] = value
InstantSet(db, name, v) == [db EXCEPT !.values = putValue(@, name, v)]

\* Scope.Set: writes into the store of the scope's handle
scopeSet(sc, name, v) == [sc EXCEPT !.db = InstantSet(@, name, v)]
\* Scope.InstanceSet: writes into the scope's own store
scopeInstanceSet(sc, name, v) == [sc EXCEPT !.instance = putValue(@, name, v)]
\* Scope.Err: the error is stored on the scope's handle
scopeErr(sc, e) == [sc EXCEPT !.db.Error = e, !.raised = Append(@, e)]
\* the handle a scope's .db gives back; it holds the pointer the scope wrote through
scopeDB(sc) == [sc.db EXCEPT !.Value = sc.Value]

\* Scope.inlineCondition: the positional conditions of a terminal call become
\* Where terms of the scope's criteria
inlineCondition(sc, where) ==
    IF Len(where) = 0 THEN sc ELSE [sc EXCEPT !.Search = searchWhere(@, where[1])]

\* the terms of the given combinator
termsOf(search, comb) ==
    {search.conditions[i].term :
        i \in {j \in 1..Len(search.conditions) : search.conditions[j].comb = comb}}

\* the WHERE clause: the AND terms and the negated NOT terms, or any OR term
Matches(row, search) ==
    \/ /\ \A t \in termsOf(search, "AND") : row[t.col] = t.val
       /\ \A t \in termsOf(search, "NOT") : row[t.col] # t.val
    \/ \E t \in termsOf(search, "OR") : row[t.col] = t.val

RECURSIVE applyTerms(_, _)
applyTerms(value, terms) ==
    IF Len(terms) = 0 THEN value
    ELSE applyTerms([value EXCEPT ![terms[1].col] = terms[1].val], Tail(terms))

RECURSIVE andTerms(_)
andTerms(conds) ==
    IF Len(conds) = 0 THEN <<>>
    ELSE (IF conds[1].comb = "AND" THEN <<conds[1].term>> ELSE <<>>) \o andTerms(Tail(conds))

\* Scope.initialize: the value is seeded from the equality conditions, then the
\* "init" attributes, then the "assign" attributes
initialize(sc) ==
    [sc EXCEPT !.Value = applyTerms(applyTerms(applyTerms(@,
                             andTerms(sc.Search.conditions)),
                             sc.Search.initAttrs), sc.Search.assignAttrs),
               !.inited = TRUE]

\* Scope.PrimaryKeyZero: the primary key of the bound value is its type's zero
PrimaryKeyZero(sc) == sc.Value.id = 0

maxId(st) == IF st = {} THEN 0 ELSE CHOOSE i \in {r.id : r \in st} : \A r \in st : r.id <= i

\* What one step of a chain does to the scope and the table.
runStep(step, sc, st) ==
    CASE step = "gorm:query" ->
           LET rows == {r \in st : Matches(r, sc.Search)}
               desc == "gorm:order_by_primary_key" \in DOMAIN sc.db.values
                       /\ sc.db.values["gorm:order_by_primary_key"] = "DESC"
           IN IF rows = {} THEN [sc |-> scopeErr(sc, RecordNotFound), st |-> st]
              ELSE [sc |-> [sc EXCEPT !.Value =
                              CHOOSE r \in rows : \A q \in rows :
                                  IF desc THEN q.id <= r.id ELSE r.id <= q.id,
                            !.db.RowsAffected = 1],
                    st |-> st]
      [] step = "gorm:create" ->
           LET row == IF sc.Value.id = 0 THEN [sc.Value EXCEPT !.id = maxId(st) + 1]
                      ELSE sc.Value
           IN IF \E r \in st : r.id = row.id
              THEN [sc |-> scopeErr(sc, ErrDuplicate), st |-> st]
              ELSE [sc |-> [sc EXCEPT !.Value = row, !.db.RowsAffected = 1],
                    st |-> st \cup {row}]
      [] step = "gorm:update" ->
           LET attrs == IF "gorm:update_interface" \in DOMAIN sc.instance
                        THEN sc.instance["gorm:update_interface"] ELSE <<>>
               new == applyTerms(sc.Value, attrs)
               hit == {r \in st : r.id = new.id}
           IN [sc |-> [sc EXCEPT !.Value = new, !.db.RowsAffected = Cardinality(hit)],
               st |-> IF hit = {} THEN st ELSE (st \ hit) \cup {new}]
      [] step = "gorm:delete" ->
           LET hit == {r \in st : /\ (sc.Value.id # 0 => r.id = sc.Value.id)
                                  /\ Matches(r, sc.Search)}
           IN [sc |-> [sc EXCEPT !.db.RowsAffected = Cardinality(hit)], st |-> st \ hit]
      [] OTHER -> [sc |-> sc, st |-> st]

\* A failure drawn for one chain: step `at` fails with ErrInjected instead of
\* doing its work (at = 0: no failure).
NoFail == 0
Fails(chain) == 0..Len(chain)

logStep(r, step) == [r EXCEPT !.sc.ran = Append(@, step)]

\* Scope.callCallbacks: the steps run top to bottom; a step found with the scope's
\* error set, and every step after it, is skipped.
RECURSIVE runChain(_, _, _, _, _)
runChain(sc, st, chain, i, fail) ==
    IF i > Len(chain) \/ sc.db.Error # NoError THEN [sc |-> sc, st |-> st]
    ELSE LET r == IF fail = i THEN [sc |-> scopeErr(sc, ErrInjected), st |-> st]
                  ELSE runStep(chain[i], sc, st)
             l == logStep(r, chain[i])
         IN runChain(l.sc, l.st, chain, i + 1, fail)

\* the chain is the one the parent holds when the operation runs:
\* callCallbacks(s.parent.callback.<kind>)
callCallbacks(sc, st, kind, fail) ==
    runChain([sc EXCEPT !.chains = Append(@, kind),
                        !.started = Append(@, [values |-> sc.db.values,
                                               instance |-> sc.instance,
                                               limit |-> sc.Search.limit])],
             st, parent.callback[kind], 1, fail)

(***************************************************************************)
(* The terminal operations of DB.  Each operator gives the scope the       *)
(* operation ended with (sc), the table afterwards (st) and the handle it  *)
(* returns (ret).                                                          *)
(***************************************************************************)
BlankValue == [id |-> 0, name |-> 0, age |-> 0]
Values == [id : {0, 1}, name : {1}, age : {0}]
Wheres == {<<>>, <<TermA>>}

\* the log of one scope, and of two scopes run one after the other
oneScope(sc) ==
    [chains |-> sc.chains, ran |-> sc.ran, raised |-> sc.raised, inited |-> sc.inited,
     spans |-> sc.spans]
twoScopes(a, b) ==
    [chains |-> a.chains \o b.chains, ran |-> a.ran \o b.ran,
     raised |-> a.raised \o b.raised, inited |-> a.inited \/ b.inited,
     spans |-> a.spans + b.spans]

\* an operation that ran the one scope sc and returns ret
ran1(sc, st, ret) ==
    [sc |-> sc, st |-> st, ret |-> ret, log |-> oneScope(sc), firstErr |-> NoError]

\* First: newScope := s.clone().NewScope(out); newScope.Search.Limit(1);
\* newScope.Set("gorm:order_by_primary_key", "ASC").inlineCondition(where...)
\*     .callCallbacks(queries).db
DBFirst(s, out, where, st, fail) ==
    LET newScope == NewScope(clone(s), out)
        limited == [newScope EXCEPT !.Search = searchLimit(@, 1)]
        r == callCallbacks(
                 inlineCondition(scopeSet(limited, "gorm:order_by_primary_key", "ASC"), where),
                 st, "queries", fail)
    IN ran1(r.sc, r.st, scopeDB(r.sc))

\* A Create that returns the handle it cloned instead of the scope's.
DBCreateReturnsClone(s, value, st, fail) ==
    LET scope == scopeInstanceSet(NewScope(clone(s), value), "gorm:insert_ignore", FALSE)
        r == callCallbacks(scope, st, "creates", fail)
    IN ran1(r.sc, r.st, clone(s))

\* Create: s.clone().NewScope(value).InstanceSet("gorm:insert_ignore", false)
\*     .callCallbacks(creates).db
DBCreate(s, value, st, fail) ==
    LET scope == scopeInstanceSet(NewScope(clone(s), value), "gorm:insert_ignore", FALSE)
        r == callCallbacks(scope, st, "creates", fail)
    IN ran1(r.sc, r.st, scopeDB(r.sc))

\* A Save that tests the key the wrong way round.
DBSaveInverted(s, value, st, fail) ==
    LET scope == NewScope(clone(s), value)
        r == IF ~PrimaryKeyZero(scope) THEN callCallbacks(scope, st, "creates", fail)
             ELSE callCallbacks(scope, st, "updates", fail)
    IN ran1(r.sc, r.st, scopeDB(r.sc))

\* Save: scope := s.clone().NewScope(value); if scope.PrimaryKeyZero() the create
\* chain, else the update chain; the scope's db is returned
DBSave(s, value, st, fail) ==
    LET scope == NewScope(clone(s), value)
        r == IF PrimaryKeyZero(scope) THEN callCallbacks(scope, st, "creates", fail)
             ELSE callCallbacks(scope, st, "updates", fail)
    IN ran1(r.sc, r.st, scopeDB(r.sc))

\* Delete: s.clone().NewScope(value).inlineCondition(where...).callCallbacks(deletes).db
DBDelete(s, value, where, st, fail) ==
    LET r == callCallbacks(inlineCondition(NewScope(clone(s), value), where),
                           st, "deletes", fail)
    IN ran1(r.sc, r.st, scopeDB(r.sc))

\* Scope.updatedAttrsWithValues: the attributes are written into the value
updatedAttrsWithValues(sc, attrs) == [sc EXCEPT !.Value = applyTerms(@, attrs)]

\* DB.RecordNotFound: s.Error == RecordNotFound
IsRecordNotFound(db) == db.Error = RecordNotFound

\* FirstOrInit: c := s.clone(); result := c.First(out, where...);
\*   result.Error != nil: not RecordNotFound -> return result;
\*                        else c.NewScope(out).inlineCondition(where...).initialize()
\*   else c.NewScope(out).updatedAttrsWithValues(s.search.assignAttrs)
\*   return c
DBFirstOrInit(s, out, where, st, fail) ==
    LET c == clone(s)
        first == DBFirst(c, out, where, st, fail)
        result == first.ret
    IN IF result.Error # NoError
       THEN IF ~IsRecordNotFound(result)
            THEN [first EXCEPT !.firstErr = result.Error]
            ELSE LET sc == initialize(inlineCondition(NewScope(c, first.sc.Value), where))
                 IN [sc |-> sc, st |-> first.st, ret |-> c,
                     log |-> twoScopes(first.sc, sc), firstErr |-> result.Error]
       ELSE LET sc == updatedAttrsWithValues(NewScope(c, first.sc.Value), s.search.assignAttrs)
            IN [sc |-> sc, st |-> first.st, ret |-> c,
                log |-> twoScopes(first.sc, sc), firstErr |-> result.Error]

\* A FirstOrCreate that takes every failed lookup for an absent record.
DBFirstOrCreateAnyError(s, out, where, st, fail1, fail2) ==
    LET c == clone(s)
        first == DBFirst(c, out, where, st, fail1)
        result == first.ret
    IN IF result.Error # NoError
       THEN LET r == callCallbacks(
                         initialize(inlineCondition(NewScope(c, first.sc.Value), where)),
                         first.st, "creates", fail2)
            IN [sc |-> r.sc, st |-> r.st, ret |-> c,
                log |-> twoScopes(first.sc, r.sc), firstErr |-> result.Error]
       ELSE [sc |-> first.sc, st |-> first.st, ret |-> c,
             log |-> oneScope(first.sc), firstErr |-> result.Error]

\* A FirstOrCreate that creates whether or not the lookup found the record.
DBFirstOrCreateAlways(s, out, where, st, fail1, fail2) ==
    LET c == clone(s)
        first == DBFirst(c, out, where, st, fail1)
        result == first.ret
    IN IF result.Error # NoError /\ ~IsRecordNotFound(result)
       THEN [first EXCEPT !.firstErr = result.Error]
       ELSE LET r == callCallbacks(
                         initialize(inlineCondition(NewScope(c, out), where)),
                         first.st, "creates", fail2)
            IN [sc |-> r.sc, st |-> r.st, ret |-> c,
                log |-> twoScopes(first.sc, r.sc), firstErr |-> result.Error]

\* FirstOrCreate: c := s.clone(); result := c.First(out, where...);
\*   result.Error != nil: not RecordNotFound -> return result;
\*       else c.NewScope(out).inlineCondition(where...).initialize().callCallbacks(creates)
\*   else if len(c.search.assignAttrs) > 0:
\*       c.NewScope(out).InstanceSet("gorm:update_interface", s.search.assignAttrs)
\*           .callCallbacks(updates)
\*   return c
DBFirstOrCreate(s, out, where, st, fail1, fail2) ==
    LET c == clone(s)
        first == DBFirst(c, out, where, st, fail1)
        result == first.ret
    IN IF result.Error # NoError
       THEN IF ~IsRecordNotFound(result)
            THEN [first EXCEPT !.firstErr = result.Error]
            ELSE LET r == callCallbacks(
                              initialize(inlineCondition(NewScope(c, first.sc.Value), where)),
                              first.st, "creates", fail2)
                 IN [sc |-> r.sc, st |-> r.st, ret |-> c,
                     log |-> twoScopes(first.sc, r.sc), firstErr |-> result.Error]
       ELSE IF Len(c.search.assignAttrs) > 0
            THEN LET r == callCallbacks(
                              scopeInstanceSet(NewScope(c, first.sc.Value),
                                               "gorm:update_interface", s.search.assignAttrs),
                              first.st, "updates", fail2)
                 IN [sc |-> r.sc, st |-> r.st, ret |-> c,
                     log |-> twoScopes(first.sc, r.sc), firstErr |-> result.Error]
            ELSE [sc |-> first.sc, st |-> first.st, ret |-> c,
                  log |-> oneScope(first.sc), firstErr |-> result.Error]

\* ModifyColumn, DropColumn, AddIndex, AddUniqueIndex, RemoveIndex, AddForeignKey:
\*   s.clone().NewScope(s.Value).<the DDL statement>(...); return s
\* The statement is the dialect's and the connection's business; here it either
\* goes through or sets the scope's error (failed).
MigrationOps ==
    {"ModifyColumn", "DropColumn", "AddIndex", "AddUniqueIndex", "RemoveIndex", "AddForeignKey"}

DBMigration(s, st, failed) ==
    LET scope == NewScope(clone(s), s.Value)
        done == [scope EXCEPT !.ran = <<"ddl">>]
        sc == IF failed THEN scopeErr(done, ErrInjected) ELSE done
    IN ran1(sc, st, s)

\* What an operation leaves in lastOp: its name, receiver and inputs, the handle it
\* returned, the target value afterwards, the error slot of the scope it ended
\* with, and the log of the scopes it ran.
opRecord(op, h, in, where, r) ==
    [op |-> op, recv |-> h, in |-> in, where |-> where, ret |-> r.ret, out |-> r.sc.Value,
     scopeError |-> r.sc.db.Error,
     chains |-> r.log.chains, ran |-> r.log.ran, raised |-> r.log.raised,
     inited |-> r.log.inited, firstErr |-> r.firstErr,
     spans |-> r.log.spans, started |-> r.sc.started, search |-> r.sc.Search]

\* An operation that works on the receiver itself instead of a clone: what the
\* scope's handle ends up holding is written into the receiver.
FinishInPlace(op, h, in, where, result) ==
    \E r \in {result} :
        /\ Cardinality(r.st) <= MaxRows
        /\ store' = r.st
        /\ lastOp' = opRecord(op, h, in, where, r)
        /\ handles' = [handles EXCEPT ![h] = r.ret]
        /\ UNCHANGED <<born, callers, resources, assoc, parent, globals>>

Finish(op, h, in, where, result) ==
    \E r \in {result} :
        /\ Cardinality(r.st) <= MaxRows
        /\ store' = r.st
        /\ lastOp' = opRecord(op, h, in, where, r)
        /\ UNCHANGED <<handles, born, callers, resources, assoc, parent, globals>>

First(h, where, fail) ==
    Finish("First", h, BlankValue, where, DBFirst(handles[h], BlankValue, where, store, fail))

Create(h, value, fail) ==
    Finish("Create", h, value, <<>>, DBCreate(handles[h], value, store, fail))

Save(h, value, fail) ==
    Finish("Save", h, value, <<>>, DBSave(handles[h], value, store, fail))

Delete(h, value, where, fail) ==
    Finish("Delete", h, value, where, DBDelete(handles[h], value, where, store, fail))

FirstOrInit(h, where, fail) ==
    Finish("FirstOrInit", h, BlankValue, where,
           DBFirstOrInit(handles[h], BlankValue, where, store, fail))

FirstOrCreate(h, where, fail1, fail2) ==
    Finish("FirstOrCreate", h, BlankValue, where,
           DBFirstOrCreate(handles[h], BlankValue, where, store, fail1, fail2))

Migration(h, op, failed) ==
    Finish(op, h, handles[h].Value, <<>>, DBMigration(handles[h], store, failed))

\* A fluent call by a caller that runs alone: clone, apply, return
Fluent(h, m, a) ==
    /\ Len(handles) < MaxHandles
    /\ handles' = Append(handles, fluentApply(m, clone(handles[h]), a))
    /\ born' = Append(born, [kind |-> "fluent", from |-> h, method |-> m, arg |-> a,
                             overlap |-> FALSE])
    /\ UNCHANGED <<callers, store, resources, lastOp, assoc, parent, globals>>

OpsMethods == {"Where", "Attrs", "Assign"}
OpsArg(m) == IF m = "Where" THEN TermA ELSE TermB

(***************************************************************************)
(* Create, Save, Delete, First and the migration operations on handles     *)
(* built by Where.                                                         *)
(***************************************************************************)
NextSave ==
    \/ \E h \in 1..Len(handles) : Fluent(h, "Where", TermA)
    \/ \E h \in 1..Len(handles), w \in Wheres, f \in Fails(DefaultCallback.queries) :
         First(h, w, f)
    \/ \E h \in 1..Len(handles), v \in Values, f \in Fails(DefaultCallback.creates) :
         Create(h, v, f)
    \/ \E h \in 1..Len(handles), v \in Values, f \in Fails(DefaultCallback.creates) :
         Save(h, v, f)
    \/ \E h \in 1..Len(handles), v \in Values, w \in Wheres,
          f \in Fails(DefaultCallback.deletes) :
         Delete(h, v, w, f)
    \/ \E h \in 1..Len(handles), op \in MigrationOps, failed \in BOOLEAN :
         Migration(h, op, failed)

SpecSave == Init /\ [][NextSave]_vars

(***************************************************************************)
(* FirstOrInit and FirstOrCreate on handles built by Where, Attrs and      *)
(* Assign.                                                                 *)
(***************************************************************************)
NextFirstOr ==
    \* the handles are built as one chain, db.Where(..).Attrs(..)...: each builder
    \* call is made on the handle the last one returned
    \/ \E m \in OpsMethods : Fluent(Len(handles), m, OpsArg(m))
    \/ \E h \in 1..Len(handles), w \in Wheres, f \in Fails(DefaultCallback.queries) :
         FirstOrInit(h, w, f)
    \/ \E h \in 1..Len(handles), w \in Wheres, f1 \in Fails(DefaultCallback.queries),
          f2 \in Fails(DefaultCallback.creates) :
         \* a second failure is drawn only when the lookup went through
         (f1 # NoFail => f2 = NoFail) /\ FirstOrCreate(h, w, f1, f2)

SpecFirstOr == Init /\ [][NextFirstOr]_vars

(***************************************************************************)
(* Transactions.  A handle's db is the plain connection, a transaction     *)
(* (its index in resources) or the nil transaction a failed Begin leaves.  *)
(* A transaction is live until its first Commit or Rollback, whatever that *)
(* returns; later calls on it are refused by the resource with ErrTxDone.  *)
(* For Begin, Commit and Rollback lastOp holds the receiver as it was      *)
(* (before), the handle returned (ret), the resources before and after,    *)
(* whether the call reached the underlying resource (invoked) and whether  *)
(* it faulted there (fault).                                               *)
(***************************************************************************)
NilTx == -1
ErrTxDone == "ErrTxDone"

\* the type assertions c.db.(sqlDb) and s.db.(sqlTx): the plain connection can
\* begin, a transaction (the nil one included, by its type) can commit and roll back
implementsSqlDb(db) == db = PlainConn
implementsSqlTx(db) == db # PlainConn

LiveTx(db, res) == db \in 1..Len(res) /\ res[db].state = "live"

\* DB.err: a non-nil error is stored on the handle
dbErr(db, e) == IF e = NoError THEN db ELSE [db EXCEPT !.Error = e]

\* Commit or Rollback of the underlying transaction k
txEnd(res, k, how, ok) ==
    IF res[k].state # "live" THEN [res |-> res, err |-> ErrTxDone]
    ELSE IF ok THEN [res |-> [res EXCEPT ![k].state = how], err |-> NoError]
    ELSE [res |-> [res EXCEPT ![k].state = "failed"], err |-> ErrInjected]

\* A Begin that asks the resource for a transaction whatever the resource is
DBBeginAlways(s, res, ok) ==
    LET c == clone(s) IN
      IF ok
      THEN [ret |-> [c EXCEPT !.db = Len(res) + 1], res |-> Append(res, [state |-> "live"]),
            invoked |-> TRUE, fault |-> FALSE]
      ELSE [ret |-> dbErr([c EXCEPT !.db = NilTx], ErrInjected), res |-> res,
            invoked |-> TRUE, fault |-> FALSE]

\* Begin: c := s.clone(); if db, ok := c.db.(sqlDb); ok { tx, err := db.Begin();
\* c.db = interface{}(tx).(sqlCommon); c.err(err) } else { c.err(CantStartTransaction) }
DBBegin(s, res, ok) ==
    LET c == clone(s) IN
      IF implementsSqlDb(c.db)
      THEN IF ok
           THEN [ret |-> [c EXCEPT !.db = Len(res) + 1],
                 res |-> Append(res, [state |-> "live"]),
                 invoked |-> TRUE, fault |-> FALSE]
           \* tx is a nil *sql.Tx: the conversion succeeds and c.db holds it
           ELSE [ret |-> dbErr([c EXCEPT !.db = NilTx], ErrInjected), res |-> res,
                 invoked |-> TRUE, fault |-> FALSE]
      ELSE [ret |-> dbErr(c, CantStartTransaction), res |-> res,
            invoked |-> FALSE, fault |-> FALSE]

\* what Commit and Rollback share: if db, ok := s.db.(sqlTx); ok { s.err(db.X()) }
\* else { s.err(NoValidTransaction) }; return s
endTx(s, res, how, ok) ==
    IF implementsSqlTx(s.db)
    THEN IF s.db = NilTx
         \* the method is called on the nil *sql.Tx and faults there
         THEN [ret |-> s, res |-> res, invoked |-> TRUE, fault |-> TRUE]
         ELSE LET r == txEnd(res, s.db, how, ok) IN
                [ret |-> dbErr(s, r.err), res |-> r.res, invoked |-> TRUE, fault |-> FALSE]
    ELSE [ret |-> dbErr(s, NoValidTransaction), res |-> res,
          invoked |-> FALSE, fault |-> FALSE]

DBCommit(s, res, ok) == endTx(s, res, "committed", ok)
DBRollback(s, res, ok) == endTx(s, res, "rolledback", ok)

txRecord(op, h, r) ==
    [op |-> op, recv |-> h, before |-> handles[h], ret |-> r.ret,
     resBefore |-> resources, resAfter |-> r.res, invoked |-> r.invoked, fault |-> r.fault]

\* A Begin that writes the transaction into its receiver as well
BeginInPlace(h, ok) ==
    /\ Len(handles) < MaxHandles
    /\ implementsSqlDb(handles[h].db) /\ ok => Len(resources) < MaxTx
    /\ \E r \in {DBBegin(handles[h], resources, ok)} :
         /\ handles' = Append([handles EXCEPT ![h] = r.ret], r.ret)
         /\ born' = Append(born, [kind |-> "begin", from |-> h,
                                  started |-> Len(r.res) > Len(resources)])
         /\ resources' = r.res
         /\ lastOp' = txRecord("Begin", h, r)
    /\ UNCHANGED <<callers, store, assoc, parent, globals>>

Begin(h, ok) ==
    /\ Len(handles) < MaxHandles
    /\ implementsSqlDb(handles[h].db) /\ ok => Len(resources) < MaxTx
    /\ \E r \in {DBBegin(handles[h], resources, ok)} :
         /\ handles' = Append(handles, r.ret)
         /\ born' = Append(born, [kind |-> "begin", from |-> h,
                                  started |-> Len(r.res) > Len(resources)])
         /\ resources' = r.res
         /\ lastOp' = txRecord("Begin", h, r)
    /\ UNCHANGED <<callers, store, assoc, parent, globals>>

\* Commit and Rollback write through the receiver and return it
inPlace(op, h, r) ==
    /\ handles' = [handles EXCEPT ![h] = r.ret]
    /\ resources' = r.res
    /\ lastOp' = txRecord(op, h, r)
    /\ UNCHANGED <<born, callers, store, assoc, parent, globals>>

Commit(h, ok) == inPlace("Commit", h, DBCommit(handles[h], resources, ok))
Rollback(h, ok) == inPlace("Rollback", h, DBRollback(handles[h], resources, ok))

\* A terminal call inside or outside a transaction: First, whose returned handle
\* the caller keeps.  On an ended transaction the statement is refused; on the
\* nil transaction the call faults and returns nothing.
TxFirst(h, fail) ==
    /\ Len(handles) < MaxHandles
    /\ handles[h].db # NilTx
    /\ handles[h].db # PlainConn /\ ~LiveTx(handles[h].db, resources) => fail = 1
    /\ handles' = Append(handles, DBFirst(handles[h], BlankValue, <<>>, store, fail).ret)
    /\ born' = Append(born, [kind |-> "terminal", from |-> h])
    /\ UNCHANGED <<callers, store, resources, lastOp, assoc, parent, globals>>

TxMethods == {"Where"}

NextTx ==
    \/ \E h \in 1..Len(handles), m \in TxMethods : Fluent(h, m, TermA)
    \/ \E h \in 1..Len(handles), ok \in BOOLEAN : Begin(h, ok)
    \/ \E h \in 1..Len(handles), ok \in BOOLEAN : Commit(h, ok)
    \/ \E h \in 1..Len(handles), ok \in BOOLEAN : Rollback(h, ok)
    \/ \E h \in 1..Len(handles), f \in Fails(DefaultCallback.queries) : TxFirst(h, f)

SpecTx == Init /\ [][NextTx]_vars

(***************************************************************************)
(* Associations.  The record type has the primary key id, the plain        *)
(* columns name and age, the has-many column Emails whose element type     *)
(* holds the foreign key UserId, and the has-many column Tags whose        *)
(* element type holds no foreign key, so its relationship has an empty     *)
(* foreign field name.  assoc holds the last Association call: its         *)
(* receiver, the column asked for, the record and the Association built.   *)
(***************************************************************************)
NilRelationship == [nil |-> TRUE]
relationship(kind, foreignFieldName) ==
    [nil |-> FALSE, Kind |-> kind, ForeignFieldName |-> foreignFieldName]

StructFields ==
    [id |-> NilRelationship, name |-> NilRelationship, age |-> NilRelationship,
     Emails |-> relationship("has_many", "UserId"),
     Tags |-> relationship("has_many", "")]

AssocColumns == {"name", "Emails", "Tags", "Nope"}
Owners == [id : {0, 1}, name : {1}, age : {0}]

NilScope == [nil |-> TRUE]
NilField == [nil |-> TRUE]
NilKey == -1

ErrBlankKey == "primary key can't be nil"
ErrInvalidAssociation == "invalid association"
ErrNoColumn == "doesn't have column"

\* Scope.PrimaryField
PrimaryField(sc) == [Name |-> "id", IsBlank |-> sc.Value.id = 0, Value |-> sc.Value.id]
\* Scope.FieldByName
FieldByName(sc, column) ==
    IF column \in DOMAIN StructFields
    THEN [ok |-> TRUE,
          field |-> [nil |-> FALSE, Name |-> column, Relationship |-> StructFields[column]]]
    ELSE [ok |-> FALSE, field |-> NilField]

\* &Association{Error: err}
failedAssociation(err) ==
    [Error |-> err, Scope |-> NilScope, Column |-> "", PrimaryKey |-> NilKey,
     Field |-> NilField]

\* An Association that takes any column that is a relationship
DBAssociationAnyRelationship(s, column) ==
    LET scope == NewScope(clone(s), s.Value)
        primaryField == PrimaryField(scope)
        found == FieldByName(scope, column)
    IN IF primaryField.IsBlank THEN failedAssociation(ErrBlankKey)
       ELSE IF found.ok
       THEN IF found.field.Relationship = NilRelationship
            THEN failedAssociation(ErrInvalidAssociation)
            ELSE [Error |-> NoError, Scope |-> scope, Column |-> column,
                  PrimaryKey |-> primaryField.Value, Field |-> found.field]
       ELSE failedAssociation(ErrNoColumn)

\* Association: scope := s.clone().NewScope(s.Value), then the three checks
DBAssociation(s, column) ==
    LET scope == NewScope(clone(s), s.Value)
        primaryField == PrimaryField(scope)
        found == FieldByName(scope, column)
    IN IF primaryField.IsBlank THEN failedAssociation(ErrBlankKey)
       ELSE IF found.ok
       THEN IF \/ found.field.Relationship = NilRelationship
               \/ found.field.Relationship.ForeignFieldName = ""
            THEN failedAssociation(ErrInvalidAssociation)
            ELSE [Error |-> NoError, Scope |-> scope, Column |-> column,
                  PrimaryKey |-> primaryField.Value, Field |-> found.field]
       ELSE failedAssociation(ErrNoColumn)

\* db.Model(&owner).Association(column): called on a handle that has a record
Association(h, column) ==
    /\ handles[h].Value # NoValue
    /\ assoc' = [made |-> TRUE, recv |-> h, column |-> column, owner |-> handles[h].Value,
                 ret |-> DBAssociation(handles[h], column)]
    /\ UNCHANGED <<handles, born, callers, store, resources, lastOp, parent, globals>>

AssocMethods == {"Model", "Where"}
AssocArgs(m) == IF m = "Model" THEN Owners ELSE {TermA}

NextAssoc ==
    \/ \E h \in 1..Len(handles), m \in AssocMethods :
         \E a \in AssocArgs(m) : Fluent(h, m, a)
    \/ \E h \in 1..Len(handles), column \in AssocColumns : Association(h, column)

SpecAssoc == Init /\ [][NextAssoc]_vars

(***************************************************************************)
(* Customizing the pipeline.  Callback() replaces the parent's pipeline by *)
(* a clone of it and returns that clone, on which the caller registers:    *)
(* insert a step before or after an anchor, replace the anchor, remove it. *)
(* The registration surface is not in the source tree and is modelled from *)
(* the design document; "custom" is the caller's step, which does nothing. *)
(***************************************************************************)
CustomStep == "custom"
Edits == {"before", "after", "replace", "remove"}

RECURSIVE register(_, _, _)
register(chain, edit, anchor) ==
    IF chain = <<>> THEN <<>>
    ELSE IF Head(chain) # anchor THEN <<Head(chain)>> \o register(Tail(chain), edit, anchor)
    ELSE CASE edit = "before" -> <<CustomStep, anchor>> \o Tail(chain)
           [] edit = "after" -> <<anchor, CustomStep>> \o Tail(chain)
           [] edit = "replace" -> <<CustomStep>> \o Tail(chain)
           [] edit = "remove" -> Tail(chain)

\* callback.clone: a copy of the four chains
callbackClone(cb) == cb

\* Callback: s.parent.callback = s.parent.callback.clone(); return s.parent.callback
DBCallback(par) == [par EXCEPT !.callback = callbackClone(par.callback)]

\* h.Callback().<kind>().<edit>(anchor): the registration is made on the pipeline
\* Callback returned, which is the one the parent now holds
Customize(h, kind, edit, anchor) ==
    /\ \E i \in 1..Len(parent.callback[kind]) : parent.callback[kind][i] = anchor
    /\ edit # "remove" => \A i \in 1..Len(parent.callback[kind]) :
                              parent.callback[kind][i] # CustomStep
    /\ parent' = [DBCallback(parent) EXCEPT
                     !.callback[kind] = register(@, edit, anchor),
                     !.customized = @ \cup {h}]
    /\ UNCHANGED <<handles, born, callers, store, resources, lastOp, assoc, globals>>

\* Find: s.clone().NewScope(out).inlineCondition(where...).callCallbacks(queries).db
DBFind(s, out, where, st, fail) ==
    LET r == callCallbacks(inlineCondition(NewScope(clone(s), out), where), st, "queries", fail)
    IN ran1(r.sc, r.st, scopeDB(r.sc))

Find(h, where, fail) ==
    Finish("Find", h, BlankValue, where, DBFind(handles[h], BlankValue, where, store, fail))

CallbackKinds == {"queries"}

NextCallback ==
    \/ \E h \in 1..Len(handles) : Fluent(h, "Where", TermA)
    \/ \E h \in 1..Len(handles), kind \in CallbackKinds, edit \in Edits,
          anchor \in {"gorm:query", "gorm:after_query"} :
         Customize(h, kind, edit, anchor)
    \/ \E h \in 1..Len(handles), f \in Fails(parent.callback.queries) : Find(h, <<>>, f)
    \/ \E h \in 1..Len(handles) : Create(h, [BlankValue EXCEPT !.name = 1], NoFail)

SpecCallback == Init /\ [][NextCallback]_vars

(***************************************************************************)
(* The named-value store: Set, InstantSet and Get.  The value of a write   *)
(* names the write itself: the handle it was made through (by) and the     *)
(* number of handles there were when it was made (at).  For these calls    *)
(* lastOp holds the receiver as it was (before), the name, the value and   *)
(* the index of the handle returned (ret).                                 *)
(***************************************************************************)
ValueNames == {"k"}
Write(by, at) == [by |-> by, at |-> at]

\* Set: s.clone().InstantSet(name, value)
DBSet(s, name, v) == InstantSet(clone(s), name, v)

\* Get: value, ok = s.values[name]
DBGet(s, name) ==
    IF name \in DOMAIN s.values THEN [value |-> s.values[name], ok |-> TRUE]
    ELSE [value |-> NoValue, ok |-> FALSE]

valueRecord(op, h, name, v, ret) ==
    [op |-> op, recv |-> h, before |-> handles[h], name |-> name, value |-> v, ret |-> ret]

\* A Set that writes into its receiver's store as well
SetInPlace(h, name) ==
    /\ Len(handles) < MaxHandles
    /\ \E v \in {Write(Len(handles) + 1, Len(handles))} :
         /\ handles' = Append([handles EXCEPT ![h] = InstantSet(@, name, v)],
                              DBSet(handles[h], name, v))
         /\ born' = Append(born, [kind |-> "set", from |-> h])
         /\ lastOp' = valueRecord("Set", h, name, v, Len(handles) + 1)
    /\ UNCHANGED <<callers, store, resources, assoc, parent, globals>>

\* h.Set(name, v): the write is made through the handle Set returns
Set(h, name) ==
    /\ Len(handles) < MaxHandles
    /\ \E v \in {Write(Len(handles) + 1, Len(handles))} :
         /\ handles' = Append(handles, DBSet(handles[h], name, v))
         /\ born' = Append(born, [kind |-> "set", from |-> h])
         /\ lastOp' = valueRecord("Set", h, name, v, Len(handles) + 1)
    /\ UNCHANGED <<callers, store, resources, assoc, parent, globals>>

\* h.InstantSet(name, v): writes through h and returns h
InstantSetOn(h, name) ==
    /\ \E v \in {Write(h, Len(handles))} :
         /\ handles' = [handles EXCEPT ![h] = InstantSet(@, name, v)]
         /\ lastOp' = valueRecord("InstantSet", h, name, v, h)
    /\ UNCHANGED <<born, callers, store, resources, assoc, parent, globals>>

\* h.Get(name)
Get(h, name) ==
    /\ lastOp' = valueRecord("Get", h, name, DBGet(handles[h], name), h)
    /\ UNCHANGED <<handles, born, callers, store, resources, assoc, parent, globals>>

NextValues ==
    \/ \E h \in 1..Len(handles) : Fluent(h, "Where", TermA)
    \/ \E h \in 1..Len(handles), name \in ValueNames : Set(h, name)
    \/ \E h \in 1..Len(handles), name \in ValueNames : InstantSetOn(h, name)
    \/ \E h \in 1..Len(handles), name \in ValueNames : Get(h, name)

SpecValues == Init /\ [][NextValues]_vars

(***************************************************************************)
(* The structural cache (modelStructs) and SingularTable.  SingularTable   *)
(* is in the source; the resolver (GetModelStruct) is not and is modelled  *)
(* from the design document: a lookup under the lock, on a miss the        *)
(* computation outside it, and the store under the lock again.  An entry   *)
(* holds the table name, which depends on the naming mode the resolver     *)
(* read when it computed it.                                               *)
(***************************************************************************)
Types == {"User", "Email"}

\* the table name of a type: plural unless singular-table mode is on
TableName(t, singular) ==
    IF singular THEN (IF t = "User" THEN "user" ELSE "email")
    ELSE (IF t = "User" THEN "users" ELSE "emails")

WriteLockFree == globals.smapMutex.writer = 0 /\ globals.smapMutex.readers = {}
ReadLockFree == globals.smapMutex.writer = 0

\* SingularTable, line 1: smapMutex.Lock()
SingularTableLock(p, enable) ==
    /\ callers[p] = Idle
    /\ WriteLockFree
    /\ globals' = [globals EXCEPT !.smapMutex.writer = p]
    /\ callers' = [callers EXCEPT ![p] = [pc |-> "st_locked", enable |-> enable]]
    /\ UNCHANGED <<handles, born, store, resources, lastOp, assoc, parent>>

\* lines 2 and 3: modelStructs = map[reflect.Type]*ModelStruct{}; smapMutex.Unlock()
SingularTableClear(p) ==
    /\ callers[p].pc = "st_locked"
    /\ globals' = [globals EXCEPT !.modelStructs = EmptyValues, !.smapMutex.writer = 0]
    /\ callers' = [callers EXCEPT ![p].pc = "st_cleared"]
    /\ UNCHANGED <<handles, born, store, resources, lastOp, assoc, parent>>

\* line 4: s.parent.singularTable = enable
SingularTableSet(p) ==
    /\ callers[p].pc = "st_cleared"
    /\ parent' = [parent EXCEPT !.singularTable = callers[p].enable]
    /\ callers' = [callers EXCEPT ![p] = Idle]
    /\ UNCHANGED <<handles, born, store, resources, lastOp, assoc, globals>>

\* the resolver looks the type up under the read lock; a hit is returned
ResolveLookup(p, t) ==
    /\ callers[p] = Idle
    /\ ReadLockFree
    /\ callers' = [callers EXCEPT ![p] =
                      IF t \in DOMAIN globals.modelStructs THEN Idle
                      ELSE [pc |-> "r_missed", type |-> t]]
    /\ UNCHANGED <<handles, born, store, resources, lastOp, assoc, parent, globals>>

\* on a miss it computes the entry, reading the naming mode
ResolveCompute(p) ==
    /\ callers[p].pc = "r_missed"
    /\ callers' = [callers EXCEPT ![p] =
                      [pc |-> "r_computed", type |-> callers[p].type,
                       entry |-> [tableName |->
                                    TableName(callers[p].type, parent.singularTable)]]]
    /\ UNCHANGED <<handles, born, store, resources, lastOp, assoc, parent, globals>>

\* and stores it under the write lock
ResolveStore(p) ==
    /\ callers[p].pc = "r_computed"
    /\ WriteLockFree
    /\ globals' = [globals EXCEPT
                      !.modelStructs = putValue(@, callers[p].type, callers[p].entry)]
    /\ callers' = [callers EXCEPT ![p] = Idle]
    /\ UNCHANGED <<handles, born, store, resources, lastOp, assoc, parent>>

NextCache ==
    \/ \E p \in Callers, enable \in BOOLEAN : SingularTableLock(p, enable)
    \/ \E p \in Callers : SingularTableClear(p)
    \/ \E p \in Callers : SingularTableSet(p)
    \/ \E p \in Callers, t \in Types : ResolveLookup(p, t)
    \/ \E p \in Callers : ResolveCompute(p)
    \/ \E p \in Callers : ResolveStore(p)

SpecCache == Init /\ [][NextCache]_vars

(***************************************************************************)
(* ToDBName (utils.go).  A name is the sequence of its characters.         *)
(***************************************************************************)
UpperCase ==
    <<"A", "B", "C", "D", "E", "F", "G", "H", "I", "J", "K", "L", "M",
      "N", "O", "P", "Q", "R", "S", "T", "U", "V", "W", "X", "Y", "Z">>
LowerCase ==
    <<"a", "b", "c", "d", "e", "f", "g", "h", "i", "j", "k", "l", "m",
      "n", "o", "p", "q", "r", "s", "t", "u", "v", "w", "x", "y", "z">>

IsUpper(c) == \E k \in 1..Len(UpperCase) : UpperCase[k] = c
\* strings.ToLower, one character
toLower(c) ==
    IF IsUpper(c) THEN LowerCase[CHOOSE k \in 1..Len(UpperCase) : UpperCase[k] = c] ELSE c
RECURSIVE ToLower(_)
ToLower(s) == IF s = <<>> THEN <<>> ELSE <<toLower(Head(s))>> \o ToLower(Tail(s))
\* strings.Title(strings.ToLower(initialism)): the first letter stays in upper case
Title(s) == <<Head(s)>> \o ToLower(Tail(s))

\* Copied from golint
commonInitialisms ==
    <<<<"A", "P", "I">>, <<"A", "S", "C", "I", "I">>, <<"C", "P", "U">>,
      <<"C", "S", "S">>, <<"D", "N", "S">>, <<"E", "O", "F">>,
      <<"G", "U", "I", "D">>, <<"H", "T", "M", "L">>, <<"H", "T", "T", "P">>,
      <<"H", "T", "T", "P", "S">>, <<"I", "D">>, <<"I", "P">>,
      <<"J", "S", "O", "N">>, <<"L", "H", "S">>, <<"Q", "P", "S">>,
      <<"R", "A", "M">>, <<"R", "H", "S">>, <<"R", "P", "C">>,
      <<"S", "L", "A">>, <<"S", "M", "T", "P">>, <<"S", "S", "H">>,
      <<"T", "L", "S">>, <<"T", "T", "L">>, <<"U", "I">>, <<"U", "I", "D">>,
      <<"U", "U", "I", "D">>, <<"U", "R", "I">>, <<"U", "R", "L">>,
      <<"U", "T", "F", "8">>, <<"V", "M">>, <<"X", "M", "L">>,
      <<"X", "S", "R", "F">>, <<"X", "S", "S">>>>

HasPrefix(s, prefix) == Len(prefix) <= Len(s) /\ SubSeq(s, 1, Len(prefix)) = prefix

\* commonInitialismsReplacer.Replace: at each position the first initialism, in
\* the order of the list, that the rest of the string starts with is replaced by
\* its Title form and skipped; where none matches the character is kept
RECURSIVE Replace(_)
Replace(s) ==
    IF s = <<>> THEN <<>>
    ELSE LET matching == {k \in 1..Len(commonInitialisms) : HasPrefix(s, commonInitialisms[k])}
         IN IF matching = {} THEN <<Head(s)>> \o Replace(Tail(s))
            ELSE LET k == CHOOSE m \in matching : \A n \in matching : m <= n
                     old == commonInitialisms[k]
                 IN Title(old) \o Replace(SubSeq(s, Len(old) + 1, Len(s)))

\* the loop of ToDBName: an underscore before every upper-case letter but the first
RECURSIVE underscores(_, _)
underscores(value, i) ==
    IF i > Len(value) THEN <<>>
    ELSE (IF i > 1 /\ IsUpper(value[i]) THEN <<"_", value[i]>> ELSE <<value[i]>>)
         \o underscores(value, i + 1)

\* what ToDBName computes on a miss
toDBName(name) == ToLower(underscores(Replace(name), 1))

\* ToDBName called by one caller at a time: a hit is returned, a miss is computed,
\* stored and returned.  The number of names cached is capped.
MaxCached == 2

UserProfile == <<"U", "s", "e", "r", "P", "r", "o", "f", "i", "l", "e">>
HTTPResponse ==
    <<"H", "T", "T", "P", "R", "e", "s", "p", "o", "n", "s", "e">>
UserID == <<"U", "s", "e", "r", "I", "D">>
DeriveNames ==
    {commonInitialisms[k] : k \in 1..Len(commonInitialisms)}
        \cup {UserProfile, HTTPResponse, UserID}

\* smap[name] = s
smapPut(smap, name, s) ==
    [n \in (DOMAIN smap) \cup {name} |-> IF n = name THEN s ELSE smap[n]]

ToDBName(name) ==
    /\ name \in DOMAIN globals.smap \/ Cardinality(DOMAIN globals.smap) < MaxCached
    /\ IF name \in DOMAIN globals.smap
       THEN /\ lastOp' = [op |-> "ToDBName", name |-> name, result |-> globals.smap[name],
                          hit |-> TRUE]
            /\ UNCHANGED globals
       ELSE \E s \in {toDBName(name)} :
              /\ globals' = [globals EXCEPT !.smap = smapPut(@, name, s),
                                            !.computed = smapPut(@, name, 1)]
              /\ lastOp' = [op |-> "ToDBName", name |-> name, result |-> s, hit |-> FALSE]
    /\ UNCHANGED <<handles, born, callers, store, resources, assoc, parent>>

NextDerive == \E name \in DeriveNames : ToDBName(name)

SpecDerive == Init /\ [][NextDerive]_vars

(***************************************************************************)
(* ToDBName called by concurrent callers, one statement at a time.         *)
(* smapMutex is a sync.RWMutex: RLock waits while a writer holds or awaits *)
(* the lock; Lock takes the writer's place and then waits for the readers  *)
(* to leave.  A caller's return is left in lastOp.                         *)
(***************************************************************************)
ResolveNames == {UserID}

\* toDBName on those names, worked out once
computedName == [name \in ResolveNames |-> toDBName(name)]

countOf(name) == IF name \in DOMAIN globals.computed THEN globals.computed[name] ELSE 0

toDBNameReturn(p, name, s, hit) ==
    [op |-> "ToDBName", caller |-> p, name |-> name, result |-> s, hit |-> hit]

\* a caller enters ToDBName(name)
ToDBNameCall(p, name) ==
    /\ callers[p] = Idle
    /\ callers' = [callers EXCEPT ![p] = [pc |-> "calling", name |-> name]]
    /\ UNCHANGED <<handles, born, store, resources, lastOp, assoc, parent, globals>>

\* smapMutex.RLock()
ToDBNameRLock(p) ==
    /\ callers[p].pc = "calling"
    /\ ReadLockFree
    /\ globals' = [globals EXCEPT !.smapMutex.readers = @ \cup {p}]
    /\ callers' = [callers EXCEPT ![p].pc = "rlocked"]
    /\ UNCHANGED <<handles, born, store, resources, lastOp, assoc, parent>>

\* A miss that leaves the function's read lock held
ToDBNameMissKeepsLock(p) ==
    /\ callers[p].pc = "rlocked"
    /\ callers[p].name \notin DOMAIN globals.smap
    /\ callers' = [callers EXCEPT ![p].pc = "missed"]
    /\ UNCHANGED <<handles, born, store, resources, lastOp, assoc, parent, globals>>

\* if v, ok := smap[name]; ok { smapMutex.RUnlock(); return v }
ToDBNameHit(p) ==
    /\ callers[p].pc = "rlocked"
    /\ callers[p].name \in DOMAIN globals.smap
    /\ globals' = [globals EXCEPT !.smapMutex.readers = @ \ {p}]
    /\ lastOp' = toDBNameReturn(p, callers[p].name, globals.smap[callers[p].name], TRUE)
    /\ callers' = [callers EXCEPT ![p] = Idle]
    /\ UNCHANGED <<handles, born, store, resources, assoc, parent>>

\* not found: smapMutex.RUnlock()
ToDBNameMiss(p) ==
    /\ callers[p].pc = "rlocked"
    /\ callers[p].name \notin DOMAIN globals.smap
    /\ globals' = [globals EXCEPT !.smapMutex.readers = @ \ {p}]
    /\ callers' = [callers EXCEPT ![p].pc = "missed"]
    /\ UNCHANGED <<handles, born, store, resources, lastOp, assoc, parent>>

\* value := commonInitialismsReplacer.Replace(name) ... s := strings.ToLower(buf.String())
ToDBNameCompute(p) ==
    /\ callers[p].pc = "missed"
    /\ callers' = [callers EXCEPT ![p] =
                      [pc |-> "computed", name |-> callers[p].name,
                       s |-> computedName[callers[p].name]]]
    /\ globals' = [globals EXCEPT
                      !.computed = smapPut(@, callers[p].name, countOf(callers[p].name) + 1)]
    /\ UNCHANGED <<handles, born, store, resources, lastOp, assoc, parent>>

\* smapMutex.Lock(): the caller takes the writer's place
ToDBNameLock(p) ==
    /\ callers[p].pc = "computed"
    /\ globals.smapMutex.writer = 0
    /\ globals' = [globals EXCEPT !.smapMutex.writer = p]
    /\ callers' = [callers EXCEPT ![p].pc = "locking"]
    /\ UNCHANGED <<handles, born, store, resources, lastOp, assoc, parent>>

\* once the readers have left: smap[name] = s; smapMutex.Unlock(); return s
ToDBNameStore(p) ==
    /\ callers[p].pc = "locking"
    /\ globals.smapMutex.readers = {}
    /\ globals' = [globals EXCEPT !.smap = smapPut(@, callers[p].name, callers[p].s),
                                  !.smapMutex.writer = 0]
    /\ lastOp' = toDBNameReturn(p, callers[p].name, callers[p].s, FALSE)
    /\ callers' = [callers EXCEPT ![p] = Idle]
    /\ UNCHANGED <<handles, born, store, resources, assoc, parent>>

\* the steps by which a caller goes on inside ToDBName
ToDBNameStep(p) ==
    \/ ToDBNameRLock(p)
    \/ ToDBNameHit(p)
    \/ ToDBNameMiss(p)
    \/ ToDBNameCompute(p)
    \/ ToDBNameLock(p)
    \/ ToDBNameStore(p)

NextResolve ==
    \/ \E p \in Callers, name \in ResolveNames : ToDBNameCall(p, name)
    \/ \E p \in Callers : ToDBNameStep(p)

\* every caller inside ToDBName is scheduled again and again
SpecResolve ==
    Init /\ [][NextResolve]_vars /\ \A p \in Callers : WF_vars(ToDBNameStep(p))

(***************************************************************************)
(* First and Last: the primary-key ordering option and the limit.          *)
(***************************************************************************)
OrderByPrimaryKey == "gorm:order_by_primary_key"

\* Last: newScope := s.clone().NewScope(ctx, out); newScope.Search.Limit(1);
\* newScope.Set("gorm:order_by_primary_key", "DESC").inlineCondition(where...)
\*     .callCallbacks(queries).db
DBLast(s, out, where, st, fail) ==
    LET newScope == NewScope(clone(s), out)
        limited == [newScope EXCEPT !.Search = searchLimit(@, 1)]
        r == callCallbacks(
                 inlineCondition(scopeSet(limited, OrderByPrimaryKey, "DESC"), where),
                 st, "queries", fail)
    IN ran1(r.sc, r.st, scopeDB(r.sc))

Last(h, where, fail) ==
    Finish("Last", h, BlankValue, where, DBLast(handles[h], BlankValue, where, store, fail))

OrderArgs == {<<"a", FALSE>>, <<"b", TRUE>>}

\* First and Last on handles built by Order, over a table filled by Create
NextOrdered ==
    \/ \E h \in 1..Len(handles), a \in OrderArgs : Fluent(h, "Order", a)
    \/ \E h \in 1..Len(handles), v \in Values : Create(h, v, NoFail)
    \/ \E h \in 1..Len(handles), w \in Wheres, f \in Fails(DefaultCallback.queries) :
         First(h, w, f)
    \/ \E h \in 1..Len(handles), w \in Wheres, f \in Fails(DefaultCallback.queries) :
         Last(h, w, f)

SpecOrdered == Init /\ [][NextOrdered]_vars

(***************************************************************************)
(* Update, Updates, UpdateColumn and UpdateColumns.  The receiver's Value  *)
(* (set by Model) is the record updated.  lastOp.in holds the values the   *)
(* caller passed and, for Updates, the variadic flag as the caller wrote   *)
(* it: <<>>, <<TRUE>> or <<FALSE>>.                                        *)
(***************************************************************************)
IgnoreProtectedAttrs == "gorm:ignore_protected_attrs"
UpdateColumnMode == "gorm:update_column"
SaveAssociations == "gorm:save_associations"
UpdateInterface == "gorm:update_interface"

\* toSearchableMap(attrs...): a column and a value become a one-entry map, a
\* single argument is passed on as it is
toSearchableMap(attrs) ==
    IF Len(attrs) = 2 THEN <<Term(attrs[1], attrs[2])>> ELSE attrs[1]

\* Updates: s.clone().NewScope(ctx, s.Value)
\*     .Set("gorm:ignore_protected_attrs", len(ignoreProtectedAttrs) > 0)
\*     .InstanceSet("gorm:update_interface", values).callCallbacks(updates).db
DBUpdates(s, values, ignoreProtectedAttrs, st, fail) ==
    LET scope == scopeInstanceSet(
                     scopeSet(NewScope(clone(s), s.Value), IgnoreProtectedAttrs,
                              Len(ignoreProtectedAttrs) > 0),
                     UpdateInterface, values)
        r == callCallbacks(scope, st, "updates", fail)
    IN ran1(r.sc, r.st, scopeDB(r.sc))

\* Update: s.Updates(ctx, toSearchableMap(attrs...), true)
DBUpdate(s, attrs, st, fail) == DBUpdates(s, toSearchableMap(attrs), <<TRUE>>, st, fail)

\* UpdateColumns: s.clone().NewScope(ctx, s.Value).Set("gorm:update_column", true)
\*     .Set("gorm:save_associations", false)
\*     .InstanceSet("gorm:update_interface", values).callCallbacks(updates).db
DBUpdateColumns(s, values, st, fail) ==
    LET scope == scopeInstanceSet(
                     scopeSet(scopeSet(NewScope(clone(s), s.Value), UpdateColumnMode, TRUE),
                              SaveAssociations, FALSE),
                     UpdateInterface, values)
        r == callCallbacks(scope, st, "updates", fail)
    IN ran1(r.sc, r.st, scopeDB(r.sc))

\* UpdateColumn: s.UpdateColumns(ctx, toSearchableMap(attrs...))
DBUpdateColumn(s, attrs, st, fail) == DBUpdateColumns(s, toSearchableMap(attrs), st, fail)

updateIn(values, flag) == [values |-> values, flag |-> flag]

Update(h, attrs, fail) ==
    Finish("Update", h, updateIn(toSearchableMap(attrs), <<>>), <<>>,
           DBUpdate(handles[h], attrs, store, fail))

Updates(h, values, ignoreProtectedAttrs, fail) ==
    Finish("Updates", h, updateIn(values, ignoreProtectedAttrs), <<>>,
           DBUpdates(handles[h], values, ignoreProtectedAttrs, store, fail))

UpdateColumn(h, attrs, fail) ==
    Finish("UpdateColumn", h, updateIn(toSearchableMap(attrs), <<>>), <<>>,
           DBUpdateColumn(handles[h], attrs, store, fail))

UpdateColumns(h, values, fail) ==
    Finish("UpdateColumns", h, updateIn(values, <<>>), <<>>,
           DBUpdateColumns(handles[h], values, store, fail))

\* the arguments drawn for the update operations
UpdateAttrs == {<<"age", 2>>}
UpdateValues == {<<TermB>>, <<Term("name", 2), TermB>>}
Flags == {<<>>, <<TRUE>>, <<FALSE>>}
Models == {[id |-> 1, name |-> 1, age |-> 0]}

\* the update operations on handles bound to a record by Model, over a table
\* filled by Create
NextUpdate ==
    \/ \E h \in 1..Len(handles), v \in Models : Fluent(h, "Model", v)
    \/ \E h \in 1..Len(handles), v \in Values : Create(h, v, NoFail)
    \/ \E h \in 1..Len(handles), a \in UpdateAttrs, f \in Fails(DefaultCallback.updates) :
         Update(h, a, f)
    \/ \E h \in 1..Len(handles), v \in UpdateValues, fl \in Flags,
          f \in Fails(DefaultCallback.updates) :
         Updates(h, v, fl, f)
    \/ \E h \in 1..Len(handles), a \in UpdateAttrs, f \in Fails(DefaultCallback.updates) :
         UpdateColumn(h, a, f)
    \/ \E h \in 1..Len(handles), v \in UpdateValues, f \in Fails(DefaultCallback.updates) :
         UpdateColumns(h, v, f)

SpecUpdate == Init /\ [][NextUpdate]_vars

(***************************************************************************)
(* Tracing.  NewScope starts a span whenever it is given a context, so an  *)
(* operation starts as many spans as it creates scopes; lastOp.spans holds *)
(* that number.                                                            *)
(***************************************************************************)
noScopes == [chains |-> <<>>, ran |-> <<>>, raised |-> <<>>, inited |-> FALSE, spans |-> 0]

\* db.NewScope(ctx, value).NeedPtr().autoMigrate(): the table of one value is
\* migrated, or the statement fails and sets the scope's error
migrateOne(db, value, failed) ==
    LET done == [NewScope(db, value) EXCEPT !.ran = <<"ddl">>]
    IN IF failed THEN scopeErr(done, ErrInjected) ELSE done

\* for _, value := range values { db = db.NewScope(ctx, value).NeedPtr().autoMigrate().db }
RECURSIVE autoMigrateFrom(_, _, _, _)
autoMigrateFrom(acc, values, i, failAt) ==
    IF i > Len(values) THEN acc
    ELSE LET sc == migrateOne(acc.db, values[i], failAt = i)
         IN autoMigrateFrom([db |-> scopeDB(sc), log |-> twoScopes(acc.log, oneScope(sc))],
                            values, i + 1, failAt)

\* AutoMigrate: db := s.clone(); the loop; return db
DBAutoMigrate(s, values, failAt) ==
    autoMigrateFrom([db |-> clone(s), log |-> noScopes], values, 1, failAt)

AutoMigrate(h, values, failAt) ==
    /\ LET r == DBAutoMigrate(handles[h], values, failAt) IN
         lastOp' = [op |-> "AutoMigrate", recv |-> h, in |-> values, ret |-> r.db,
                    ran |-> r.log.ran, raised |-> r.log.raised, spans |-> r.log.spans]
    /\ UNCHANGED <<handles, born, callers, store, resources, assoc, parent, globals>>

MigrateValues == {<<>>, <<BlankValue>>, <<BlankValue, NoValue>>}

\* the operations that create one scope and those that create several, on handles
\* built as one chain by Where, Attrs and Assign
NextTracing ==
    \/ \E m \in OpsMethods : Fluent(Len(handles), m, OpsArg(m))
    \/ \E h \in 1..Len(handles), w \in Wheres : First(h, w, NoFail)
    \/ \E h \in 1..Len(handles), v \in Values : Create(h, v, NoFail)
    \/ \E h \in 1..Len(handles), w \in Wheres : FirstOrInit(h, w, NoFail)
    \/ \E h \in 1..Len(handles), w \in Wheres : FirstOrCreate(h, w, NoFail, NoFail)
    \/ \E h \in 1..Len(handles), vs \in MigrateValues :
         \E f \in 0..Len(vs) : AutoMigrate(h, vs, f)

SpecTracing == Init /\ [][NextTracing]_vars

(***************************************************************************)
(* The query and mutation operations together, on handles built by Where   *)
(* and Model.                                                              *)
(***************************************************************************)
TerminalOps ==
    {"First", "Last", "Find", "Create", "Save", "Update", "Updates", "UpdateColumn",
     "UpdateColumns", "Delete"}

NextTerminal ==
    \/ \E h \in 1..Len(handles) : Fluent(h, "Where", TermA)
    \/ \E h \in 1..Len(handles), v \in Models : Fluent(h, "Model", v)
    \/ \E h \in 1..Len(handles), w \in Wheres : First(h, w, NoFail)
    \/ \E h \in 1..Len(handles) : Last(h, <<>>, NoFail)
    \/ \E h \in 1..Len(handles) : Find(h, <<TermA>>, NoFail)
    \/ \E h \in 1..Len(handles), v \in Values : Create(h, v, NoFail)
    \/ \E h \in 1..Len(handles), v \in Models : Save(h, v, NoFail)
    \/ \E h \in 1..Len(handles), a \in UpdateAttrs : Update(h, a, NoFail)
    \/ \E h \in 1..Len(handles), fl \in Flags : Updates(h, <<TermB>>, fl, NoFail)
    \/ \E h \in 1..Len(handles), a \in UpdateAttrs : UpdateColumn(h, a, NoFail)
    \/ \E h \in 1..Len(handles) : UpdateColumns(h, <<TermB>>, NoFail)
    \/ \E h \in 1..Len(handles), w \in Wheres : Delete(h, BlankValue, w, NoFail)

SpecTerminal == Init /\ [][NextTerminal]_vars

(***************************************************************************)
(* C1.  Criteria immutability under branching.                             *)
(***************************************************************************)
\* The criteria fields a builder method is meant to touch, and what the claim
\* expects each to hold afterwards, stated from the receiver's criteria `old`.
C1_Touched(m) ==
    CASE m \in {"Where", "Or", "Not"} -> {"conditions"}
      [] m = "Raw" -> {"conditions", "raw"}
      [] m = "Limit" -> {"limit"}
      [] m = "Offset" -> {"offset"}
      [] m = "Order" -> {"orders"}
      [] m = "Select" -> {"selects"}
      [] m = "Omit" -> {"omits"}
      [] m = "Group" -> {"group"}
      [] m = "Having" -> {"having"}
      [] m = "Joins" -> {"joins"}
      [] m = "Preload" -> {"preload"}
      [] m = "Unscoped" -> {"unscoped"}
      [] m = "Attrs" -> {"initAttrs"}
      [] m = "Assign" -> {"assignAttrs"}

C1_Combinator(m) == CASE m = "Or" -> "OR" [] m = "Not" -> "NOT" [] OTHER -> "AND"

C1_PlusOneTerm(old, m, a, new) ==
    /\ \A f \in (DOMAIN old) \ C1_Touched(m) : new[f] = old[f]
    /\ CASE m \in {"Where", "Or", "Not", "Raw"} ->
              /\ Len(new.conditions) = Len(old.conditions) + 1
              /\ SubSeq(new.conditions, 1, Len(old.conditions)) = old.conditions
              /\ new.conditions[Len(new.conditions)] = [comb |-> C1_Combinator(m), term |-> a]
              /\ m = "Raw" => new.raw
         [] m \in {"Preload", "Attrs", "Assign"} ->
              LET f == CHOOSE x \in C1_Touched(m) : TRUE IN
                /\ Len(new[f]) = Len(old[f]) + 1
                /\ SubSeq(new[f], 1, Len(old[f])) = old[f]
                /\ new[f][Len(new[f])] = a
         [] m = "Order" ->
              IF a[2] THEN new.orders = <<a[1]>> ELSE new.orders = old.orders \o <<a[1]>>
         [] m = "Omit" -> new.omits = <<a>>
         [] m = "Unscoped" -> new.unscoped
         [] OTHER -> new[CHOOSE x \in C1_Touched(m) : TRUE] = a

\* every handle a builder call returned holds its receiver's criteria plus the one term
C1_Born ==
    \A k \in 1..Len(handles) :
        (born[k].kind = "fluent" /\ born[k].method \in CriteriaMethods) =>
            C1_PlusOneTerm(handles[born[k].from].search, born[k].method, born[k].arg,
                           handles[k].search)

\* how often condition term t occurs in criteria s
C1_Occurs(s, t) == Cardinality({i \in 1..Len(s.conditions) : s.conditions[i].term = t})

\* two handles branched from the same handle by Where with different terms hold none
\* of each other's term beyond what the common ancestor already held
C1_Siblings ==
    \A k1, k2 \in 1..Len(handles) :
        (/\ k1 # k2
         /\ born[k1].kind = "fluent" /\ born[k2].kind = "fluent"
         /\ born[k1].from = born[k2].from
         /\ born[k1].method = "Where" /\ born[k2].method = "Where"
         /\ born[k1].arg # born[k2].arg) =>
            C1_Occurs(handles[k1].search, born[k2].arg)
                = C1_Occurs(handles[born[k1].from].search, born[k2].arg)

\* no step, of any caller, changes the criteria of a handle that already exists
C1_Frame ==
    \A k \in 1..Len(handles) :
        k <= Len(handles') /\ handles'[k].search = handles[k].search

\* C1: a fluent builder call returns a new handle whose criteria is the receiver's
\* plus exactly the added term, the receiver's and every other existing handle's
\* criteria stay as they were, and sibling branches never hold each other's terms,
\* under every interleaving of the callers.
C1_CriteriaImmutable == [](C1_Born /\ C1_Siblings) /\ [][C1_Frame]_vars

\* two branches of handle 1, Where(a) and Where(b), built by overlapping calls
C1_Witness ==
    \E k1, k2 \in 2..Len(handles) :
        /\ born[k1].kind = "fluent" /\ born[k2].kind = "fluent"
        /\ born[k1].from = 1 /\ born[k2].from = 1
        /\ born[k1].method = "Where" /\ born[k1].arg = TermA
        /\ born[k2].method = "Where" /\ born[k2].arg = TermB
        /\ born[k1].overlap

(***************************************************************************)
(* C2.  Save routing.                                                      *)
(***************************************************************************)
Range(f) == {f[i] : i \in DOMAIN f}

\* C2: a Save of a value whose primary key is zero runs the create chain and no step
\* of the update chain; a Save of a value whose key is not zero runs the update chain
\* and no step of the create chain; every Save runs exactly one chain.
C2_SaveRouting ==
    lastOp.op = "Save" =>
        /\ Len(lastOp.chains) = 1
        /\ lastOp.in.id = 0 =>
              /\ lastOp.chains = <<"creates">>
              /\ Range(lastOp.ran) \subseteq Range(DefaultCallback.creates)
        /\ lastOp.in.id # 0 =>
              /\ lastOp.chains = <<"updates">>
              /\ Range(lastOp.ran) \subseteq Range(DefaultCallback.updates)

\* a Save of a record that carries a key but is in no row of the table: the whole
\* update chain ran
C2_Witness ==
    /\ lastOp.op = "Save"
    /\ lastOp.in.id # 0
    /\ \A r \in store : r.id # lastOp.in.id
    /\ lastOp.chains = <<"updates">>
    /\ lastOp.ran = DefaultCallback.updates

(***************************************************************************)
(* C3.  FirstOrInit and FirstOrCreate branch on the lookup's error.        *)
(***************************************************************************)
\* C3: when the lookup of FirstOrInit or FirstOrCreate fails with an error other than
\* RecordNotFound, the returned handle carries that error and only the query chain
\* ran: the value was not initialized and neither the create nor the update chain
\* was called.  The value is initialized, and the create chain called, only after a
\* lookup that ended with RecordNotFound.
C3_OnlyNotFoundInitializes ==
    lastOp.op \in {"FirstOrInit", "FirstOrCreate"} =>
        /\ lastOp.firstErr \notin {NoError, RecordNotFound} =>
              /\ lastOp.ret.Error = lastOp.firstErr
              /\ ~lastOp.inited
              /\ lastOp.chains = <<"queries">>
        /\ lastOp.inited => lastOp.firstErr = RecordNotFound
        /\ "creates" \in Range(lastOp.chains) =>
              /\ lastOp.op = "FirstOrCreate"
              /\ lastOp.firstErr = RecordNotFound
              /\ lastOp.inited

\* a FirstOrCreate whose lookup failed with another error, on an empty table
C3_Witness ==
    /\ lastOp.op = "FirstOrCreate"
    /\ lastOp.firstErr = ErrInjected
    /\ lastOp.ret.Error = ErrInjected
    /\ store = {}

(***************************************************************************)
(* C4.  The returned handle carries the error of the scope that ran.       *)
(***************************************************************************)
\* C4: whenever the scope an operation ended with has its error set, the handle the
\* operation returns has that error.
C4_ReturnedHandleCarriesError ==
    (lastOp.op # "none" /\ lastOp.scopeError # NoError) =>
        lastOp.ret.Error = lastOp.scopeError

(***************************************************************************)
(* C5.  FirstOrCreate end to end.                                          *)
(***************************************************************************)
\* the criteria a FirstOrCreate call on handle h with inline conditions w looks up
C5_Criteria(h, w) ==
    IF Len(w) = 0 THEN handles[h].search ELSE searchWhere(handles[h].search, w[1])

C5_Matching(st, h, w) == {r \in st : Matches(r, C5_Criteria(h, w))}

\* one FirstOrCreate call in which no statement failed
C5_Step ==
    (lastOp' # lastOp /\ lastOp'.op = "FirstOrCreate"
       /\ ErrInjected \notin Range(lastOp'.raised)) =>
        LET h == lastOp'.recv
            w == lastOp'.where
            crit == C5_Criteria(h, w)
            seeds == Range(andTerms(crit.conditions)) \cup Range(crit.initAttrs)
                       \cup Range(crit.assignAttrs)
            before == C5_Matching(store, h, w)
            after == C5_Matching(store', h, w)
        IN IF before = {}
           THEN /\ lastOp'.out \notin store
                /\ store' = store \cup {lastOp'.out}
                /\ after = {lastOp'.out}
                /\ \A t \in seeds : lastOp'.out[t.col] = t.val
                /\ lastOp'.ret.Error = NoError
                /\ lastOp'.chains = <<"queries", "creates">>
           ELSE /\ "creates" \notin Range(lastOp'.chains)
                /\ Cardinality(store') = Cardinality(store)
                /\ Cardinality(after) = Cardinality(before)
                /\ lastOp'.out \in after
                /\ lastOp'.ret.Error = NoError

\* C5: a FirstOrCreate call (in which no statement fails) on a table with no matching
\* record adds exactly one record, which carries the values of the conditions and of
\* the seed attributes, returns it and reports no error; on a table that holds a
\* matching record it runs no create chain and adds nothing.  So identical calls in
\* a row leave exactly one matching record.
C5_FirstOrCreateOnce == [][C5_Step]_vars

\* the second of two identical calls db.Where(name = 1).Attrs(age = 2)
\* .FirstOrCreate(&out): the record the first call created was found
C5_Witness ==
    /\ lastOp.op = "FirstOrCreate"
    /\ lastOp.chains = <<"queries">>
    /\ lastOp.where = <<>>
    /\ handles[lastOp.recv].search.conditions = <<[comb |-> "AND", term |-> TermA]>>
    /\ handles[lastOp.recv].search.initAttrs = <<TermB>>
    /\ handles[lastOp.recv].search.assignAttrs = <<>>
    /\ lastOp.out.name = 1 /\ lastOp.out.age = 2
    /\ C5_Matching(store, lastOp.recv, <<>>) = {lastOp.out}

C7_OnlyLiveTransaction ==
    (/\ lastOp.op \in {"Commit", "Rollback"}
     /\ ~LiveTx(lastOp.before.db, lastOp.resBefore))
    => /\ lastOp.ret.Error = NoValidTransaction
       /\ ~lastOp.invoked
       /\ ~lastOp.fault

(***************************************************************************)
(* C8.  Begin on a resource that cannot start a transaction.               *)
(***************************************************************************)
\* C8: whenever Begin was called on a handle whose resource is not the plain
\* connection, the returned handle's error is CantStartTransaction, no
\* transaction was started, the resource was not asked, and both the returned
\* handle and the receiver hold the resource the receiver held.
C8_CantStart ==
    (/\ lastOp.op = "Begin"
     /\ ~implementsSqlDb(lastOp.before.db))
    => /\ lastOp.ret.Error = CantStartTransaction
       /\ lastOp.resAfter = lastOp.resBefore
       /\ ~lastOp.invoked
       /\ lastOp.ret.db = lastOp.before.db
       /\ handles[lastOp.recv].db = lastOp.before.db

\* Begin was called on a transaction-scoped handle
C8_Witness ==
    /\ lastOp.op = "Begin"
    /\ lastOp.before.db \in 1..Len(resources)
    /\ lastOp.ret.Error = CantStartTransaction
    /\ lastOp.ret.db = lastOp.before.db

(***************************************************************************)
(* C9.  Transaction scoping.                                               *)
(***************************************************************************)
\* handle i is j or was derived from j by some sequence of calls
RECURSIVE C9_Derived(_, _)
C9_Derived(i, j) ==
    \/ i = j
    \/ i > j /\ born[i].kind # "open" /\ C9_Derived(born[i].from, j)

\* handle i was derived from j by fluent and terminal calls only
RECURSIVE C9_Plainly(_, _)
C9_Plainly(i, j) ==
    \/ i = j
    \/ i > j /\ born[i].kind \in {"fluent", "terminal"} /\ C9_Plainly(born[i].from, j)

C9_Begun == {t \in 1..Len(handles) : born[t].kind = "begin" /\ born[t].started}

C9_Scoped ==
    \A t \in C9_Begun :
        /\ handles[t].db \in 1..Len(resources)
        /\ \A i \in 1..Len(handles) :
             \* t and what is derived from t use t's transaction, nothing else does
             /\ C9_Derived(i, t) <=> handles[i].db = handles[t].db
             \* h, its ancestors and what is derived from h without a Begin use
             \* the plain connection
             /\ (C9_Derived(born[t].from, i) \/ C9_Plainly(i, born[t].from))
                    => handles[i].db = PlainConn

C9_Frame ==
    \A i \in 1..Len(handles) :
        \* no call changes the resource of an existing handle
        /\ handles'[i].db = handles[i].db
        \* only Commit and Rollback change an existing handle, the receiver, and
        \* of it only the error
        /\ handles'[i] # handles[i]
               => /\ lastOp'.op \in {"Commit", "Rollback"}
                  /\ lastOp'.recv = i
                  /\ handles'[i] = [handles[i] EXCEPT !.Error = handles'[i].Error]

\* C9: the handle a successful Begin returns and every handle derived from it
\* use the transaction, and no other handle does; the receiver of that Begin,
\* its ancestors and the handles derived from it by fluent and terminal calls
\* use the plain connection; no call changes the resource of an existing
\* handle, and the only change to an existing handle is the error Commit or
\* Rollback stores on their own receiver.
C9_TransactionScoping == []C9_Scoped /\ [][C9_Frame]_vars

\* h.Begin() succeeded, a handle was derived from the transaction handle t, and
\* t was committed while h is as it was
C9_Witness ==
    \E t \in C9_Begun :
        /\ \E i \in 1..Len(handles) : i # t /\ C9_Derived(i, t)
        /\ resources[handles[t].db].state = "committed"
        /\ handles[born[t].from] = OpenDB

(***************************************************************************)
(* C10.  Association construction.                                         *)
(***************************************************************************)
C10_BlankKey == assoc.owner.id = 0
C10_NoColumn == assoc.column \notin DOMAIN StructFields
C10_NotRelationship ==
    assoc.column \in DOMAIN StructFields /\ StructFields[assoc.column].nil
C10_NoForeignKey ==
    /\ assoc.column \in DOMAIN StructFields
    /\ ~StructFields[assoc.column].nil
    /\ StructFields[assoc.column].ForeignFieldName = ""

C10_Failed == assoc.ret.Error # NoError /\ assoc.ret.Scope = NilScope
C10_Bound ==
    /\ assoc.ret.Error = NoError
    /\ assoc.ret.Scope # NilScope
    /\ assoc.ret.Scope.Value = assoc.owner
    /\ assoc.ret.Scope.db.db = handles[assoc.recv].db
    /\ assoc.ret.Column = assoc.column
    /\ assoc.ret.Field = [nil |-> FALSE, Name |-> assoc.column,
                          Relationship |-> StructFields[assoc.column]]
    /\ assoc.ret.PrimaryKey = assoc.owner.id

\* C10 as stated: Association fails, with an error and no scope, exactly when
\* the owner's primary key is blank, the column does not exist, or the column
\* is not a relationship; in every other case it is bound to the scope, the
\* column, the field and the owner's key.
C10_AsStated ==
    assoc.made =>
        IF C10_BlankKey \/ C10_NoColumn \/ C10_NotRelationship
        THEN C10_Failed ELSE C10_Bound

\* C10 amended: Association fails, with an error and no scope, exactly when the
\* owner's primary key is blank, the column does not exist, the column is not a
\* relationship, or it is a relationship with an empty foreign field name; in
\* every other case it is bound to the scope, the column, the field and the
\* owner's key.
C10_AssociationErrors ==
    assoc.made =>
        IF C10_BlankKey \/ C10_NoColumn \/ C10_NotRelationship \/ C10_NoForeignKey
        THEN C10_Failed ELSE C10_Bound

\* an owner with a key asked for a relationship that has no foreign field name,
\* and was refused
C10_Witness ==
    /\ assoc.made
    /\ ~C10_BlankKey
    /\ C10_NoForeignKey
    /\ C10_Failed

(***************************************************************************)
(* C11.  Pipeline isolation between lineages.                              *)
(***************************************************************************)
C11_IsPrefix(a, b) == Len(a) <= Len(b) /\ a = SubSeq(b, 1, Len(a))

\* the handle is on another branch than every handle whose Callback() was used
\* to customize: neither derived from it nor one of its ancestors
C11_OtherLineage(h) ==
    \A e \in parent.customized : ~C9_Derived(h, e) /\ ~C9_Derived(e, h)

\* C11: a Find on a handle of another lineage than the ones that customized
\* the query chain runs the steps of the default query chain, in order (up to
\* the step at which an error stopped it).
C11_PipelineIsolation ==
    (/\ lastOp.op = "Find"
     /\ C11_OtherLineage(lastOp.recv))
    => C11_IsPrefix(lastOp.ran, DefaultCallback.queries)

(***************************************************************************)
(* C12.  The named-value store.                                            *)
(***************************************************************************)
C12_Calls ==
    /\ lastOp.op = "Set" =>
          /\ lastOp.ret # lastOp.recv
          /\ DBGet(handles[lastOp.ret], lastOp.name) = [value |-> lastOp.value, ok |-> TRUE]
          /\ handles[lastOp.recv] = lastOp.before
          /\ DBGet(handles[lastOp.recv], lastOp.name) = DBGet(lastOp.before, lastOp.name)
    /\ lastOp.op = "InstantSet" =>
          /\ lastOp.ret = lastOp.recv
          /\ handles[lastOp.recv] =
                 [lastOp.before EXCEPT !.values = putValue(@, lastOp.name, lastOp.value)]
          /\ DBGet(handles[lastOp.recv], lastOp.name) = [value |-> lastOp.value, ok |-> TRUE]
    /\ lastOp.op = "Get" =>
          /\ handles[lastOp.recv] = lastOp.before
          /\ lastOp.value = DBGet(lastOp.before, lastOp.name)

\* a write seen through handle i was made through i, or through a handle i was
\* derived from after the write
C12_Visible ==
    \A i \in 1..Len(handles) : \A n \in DOMAIN handles[i].values :
        LET w == handles[i].values[n] IN
          \/ i = w.by
          \/ C9_Derived(i, w.by) /\ i > w.at

\* the only call that changes a handle there already is, is InstantSet, and it
\* changes its receiver
C12_Frame ==
    \A i \in 1..Len(handles) :
        handles'[i] # handles[i] => lastOp'.op = "InstantSet" /\ lastOp'.recv = i

\* C12: Set returns a new handle on which Get gives the value, and leaves its
\* receiver as it was; InstantSet writes into its receiver's store and returns
\* the receiver; Get gives the stored value and changes no store; and a write
\* is seen only through the handle it was made through and the handles derived
\* from that one after the write.
C12_NamedValues == [](C12_Calls /\ C12_Visible) /\ [][C12_Frame]_vars

\* a handle was derived from h, then a value was written into h in place, and
\* a Set was made on h: three handles, of which only two see a write to the name
C12_Witness ==
    /\ lastOp.op = "Set"
    /\ lastOp.name \in DOMAIN lastOp.before.values
    /\ handles[lastOp.ret].values[lastOp.name] # lastOp.before.values[lastOp.name]
    /\ \E i \in 1..Len(handles) :
          /\ C9_Derived(i, lastOp.recv)
          /\ lastOp.name \notin DOMAIN handles[i].values

(***************************************************************************)
(* C13.  Singular-table invalidation.                                      *)
(***************************************************************************)
\* C13: whenever the cache can be looked at (nobody holds the write lock), and
\* so also once SingularTable has returned, every entry in it has the table
\* name of the naming mode that is in force.
C13_NoStaleEntry ==
    globals.smapMutex.writer = 0 =>
        \A t \in DOMAIN globals.modelStructs :
            globals.modelStructs[t].tableName = TableName(t, parent.singularTable)

(***************************************************************************)
(* C15.  Name derivation keeps acronyms whole.                             *)
(***************************************************************************)
\* the snake_case form of a name in which every initialism is one unit: a unit
\* is the longest initialism found at a position, or else an upper-case
\* letter with the lower-case letters after it; the units are lower-cased and
\* joined by underscores
RECURSIVE C15_Snake(_, _)
C15_Snake(s, first) ==
    IF s = <<>> THEN <<>>
    ELSE LET sep == IF first THEN <<>> ELSE <<"_">>
             matching == {k \in 1..Len(commonInitialisms) :
                             HasPrefix(s, commonInitialisms[k])}
         IN IF matching # {}
            THEN LET k == CHOOSE m \in matching : \A n \in matching :
                              Len(commonInitialisms[m]) >= Len(commonInitialisms[n])
                     old == commonInitialisms[k]
                 IN sep \o ToLower(old) \o C15_Snake(SubSeq(s, Len(old) + 1, Len(s)), FALSE)
            ELSE IF IsUpper(Head(s))
            THEN sep \o <<toLower(Head(s))>> \o C15_Snake(Tail(s), FALSE)
            ELSE <<Head(s)>> \o C15_Snake(Tail(s), FALSE)

\* C15: the name ToDBName gives, computed or cached, is the snake_case form of
\* its argument with every initialism kept whole; so UserProfile gives
\* user_profile, HTTPResponse gives http_response and an initialism on its own
\* gives its lower-case spelling with no underscore.
C15_AcronymsWhole ==
    lastOp.op = "ToDBName" =>
        /\ lastOp.result = C15_Snake(lastOp.name, TRUE)
        /\ lastOp.name = UserProfile => lastOp.result = <<"u", "s", "e", "r", "_", "p", "r", "o", "f", "i", "l", "e">>
        /\ lastOp.name = HTTPResponse => lastOp.result = <<"h", "t", "t", "p", "_", "r", "e", "s", "p", "o", "n", "s", "e">>
        /\ (\E k \in 1..Len(commonInitialisms) : lastOp.name = commonInitialisms[k])
              => lastOp.result = ToLower(lastOp.name)

(***************************************************************************)
(* C14.  Concurrent memoized resolution.                                   *)
(***************************************************************************)
C14_SameValue ==
    /\ lastOp.op = "ToDBName" => lastOp.result = toDBName(lastOp.name)
    /\ \A n \in DOMAIN globals.smap : globals.smap[n] = toDBName(n)

C14_Computations ==
    /\ \A n \in DOMAIN globals.computed : globals.computed[n] \in 1..NCallers
    /\ \A n \in DOMAIN globals.smap : n \in DOMAIN globals.computed
    /\ lastOp.op = "ToDBName" => lastOp.name \in DOMAIN globals.computed

C14_Released ==
    (\A p \in Callers : callers[p] = Idle) => globals.smapMutex = Unlocked

C14_Stable ==
    \A n \in DOMAIN globals.smap :
        n \in DOMAIN globals'.smap /\ globals'.smap[n] = globals.smap[n]

\* C14: every call of ToDBName returns what the uncached computation gives, and
\* so does every cache entry; each name is computed at least once before it is
\* cached or returned and at most once per caller; an entry once written is
\* never changed; the lock is free whenever no caller is inside, and every
\* caller that enters ToDBName returns.
C14_MemoizedResolution ==
    /\ [](C14_SameValue /\ C14_Computations /\ C14_Released)
    /\ [][C14_Stable]_vars
    /\ \A p \in Callers : (callers[p] # Idle) ~> (callers[p] = Idle)

\* both callers computed the same name, and the second one's store left the
\* entry as it was
C14_Witness ==
    /\ \E n \in DOMAIN globals.computed : globals.computed[n] = NCallers
    /\ lastOp.op = "ToDBName" /\ ~lastOp.hit
    /\ \A p \in Callers : callers[p] = Idle

(***************************************************************************)
(* C16.  Order reset law.                                                  *)
(***************************************************************************)
\* The order list the law gives handle k, folded along the calls that made it: the
\* opened handle has none, Order without the flag appends, Order with the flag
\* starts over, every other builder method carries the list along.
RECURSIVE C16_Law(_)
C16_Law(k) ==
    IF born[k].kind # "fluent" THEN <<>>
    ELSE IF born[k].method # "Order" THEN C16_Law(born[k].from)
    ELSE IF born[k].arg[2] THEN <<born[k].arg[1]>>
    ELSE Append(C16_Law(born[k].from), born[k].arg[1])

C16_Lists == \A k \in 1..Len(handles) : handles[k].search.orders = C16_Law(k)

\* a step leaves the order list of every handle that exists as it was
C16_Unchanged ==
    \A k \in 1..Len(handles) : handles'[k].search.orders = handles[k].search.orders

\* C16: over any sequence of Order calls, a call without the reorder flag appends
\* its clause to the receiver's order list and a call with reorder = true drops the
\* earlier clauses and keeps only its own; the receiver's list, and the list of
\* every handle earlier in the chain, stays what it was.
C16_OrderResetLaw == []C16_Lists /\ [][C16_Unchanged]_vars

\* h.Order("a").Order("b", true) has been built and holds exactly <<"b">>, while
\* h.Order("a") still holds <<"a">>
C16_Witness ==
    \E k2, k3 \in 2..Len(handles) :
        /\ born[k2].kind = "fluent" /\ born[k2].from = 1
        /\ born[k2].method = "Order" /\ born[k2].arg = <<"a", FALSE>>
        /\ born[k3].kind = "fluent" /\ born[k3].from = k2
        /\ born[k3].method = "Order" /\ born[k3].arg = <<"b", TRUE>>
        /\ handles[k3].search.orders = <<"b">>
        /\ handles[k2].search.orders = <<"a">>
(***************************************************************************)
(* C17.  First and Last: implicit primary-key ordering unless reordered.   *)
(***************************************************************************)
\* the receiver's criteria came out of an Order call with reorder = true and no
\* later Order call
RECURSIVE C17_Reordered(_)
C17_Reordered(k) ==
    /\ born[k].kind = "fluent"
    /\ IF born[k].method = "Order" THEN born[k].arg[2] ELSE C17_Reordered(born[k].from)

C17_Direction(op) == IF op = "First" THEN "ASC" ELSE "DESC"

\* what the scope held when the query chain was started
C17_AtStart == lastOp.started[1]

\* C17: when First or Last starts the query chain the scope's limit is 1 and its
\* store holds the primary-key ordering option, ascending for First and descending
\* for Last, unless the receiver was built with an explicit reordering, in which
\* case the store holds no such option.
C17_ImplicitOrdering ==
    lastOp.op \in {"First", "Last"} =>
        /\ Len(lastOp.started) = 1
        /\ C17_AtStart.limit = 1
        /\ IF C17_Reordered(lastOp.recv)
           THEN OrderByPrimaryKey \notin DOMAIN C17_AtStart.values
           ELSE /\ OrderByPrimaryKey \in DOMAIN C17_AtStart.values
                /\ C17_AtStart.values[OrderByPrimaryKey] = C17_Direction(lastOp.op)
(***************************************************************************)
(* C18.  The options and the payload of the update operations.             *)
(***************************************************************************)
\* what the scope held when the update chain was started
C18_AtStart == lastOp.started[1]

C18_Holds(vals, name, v) == name \in DOMAIN vals /\ vals[name] = v

\* the ignore-protected-attributes option the caller chose
C18_Chosen ==
    IF lastOp.op = "Update" THEN TRUE
    ELSE Len(lastOp.in.flag) > 0 /\ lastOp.in.flag[1]

\* C18: when the update chain starts, the scope's store holds
\* ignore-protected-attributes = true for Update and for Updates with the flag
\* true, and false for Updates with the flag omitted or false; for UpdateColumn and
\* UpdateColumns it holds column-only mode = true and association saving = false;
\* and in every case the caller's values are the stored update payload.
C18_UpdateOptions ==
    lastOp.op \in {"Update", "Updates", "UpdateColumn", "UpdateColumns"} =>
        /\ Len(lastOp.started) = 1
        /\ C18_Holds(C18_AtStart.instance, UpdateInterface, lastOp.in.values)
        /\ lastOp.op \in {"Update", "Updates"} =>
               C18_Holds(C18_AtStart.values, IgnoreProtectedAttrs, C18_Chosen)
        /\ lastOp.op \in {"UpdateColumn", "UpdateColumns"} =>
               /\ C18_Holds(C18_AtStart.values, UpdateColumnMode, TRUE)
               /\ C18_Holds(C18_AtStart.values, SaveAssociations, FALSE)
(***************************************************************************)
(* C19.  One span per top-level operation.                                 *)
(***************************************************************************)
\* C19: every terminal operation called with a context starts exactly one span,
\* however many scopes it creates on the way.
C19_OneSpanPerOperation == lastOp.op # "none" => lastOp.spans = 1
(***************************************************************************)
(* C20.  Terminal operations leave the receiver unchanged.                 *)
(***************************************************************************)
\* a step leaves every handle that exists as it was: criteria, target value,
\* error, rows-affected count and named values
C20_HandlesKept == \A k \in 1..Len(handles) : handles'[k] = handles[k]

\* what the last operation added is in its scope's snapshot and in the handle it
\* returned, and not in the receiver
C20_OnlyInScope ==
    LET h == handles[lastOp.recv] IN
      lastOp.op \in TerminalOps =>
        /\ h.Error = NoError /\ h.RowsAffected = 0 /\ h.search.limit = Unset
        /\ lastOp.op \in {"First", "Last"} =>
               /\ lastOp.search.limit = 1
               /\ OrderByPrimaryKey \in DOMAIN lastOp.ret.values
               /\ OrderByPrimaryKey \notin DOMAIN h.values
        /\ lastOp.op \in {"First", "Last", "Find", "Delete"} =>
               lastOp.search.conditions =
                   h.search.conditions \o
                       [i \in 1..Len(lastOp.where) |-> [comb |-> "AND", term |-> lastOp.where[i]]]
        /\ lastOp.op \in {"Update", "Updates", "UpdateColumn", "UpdateColumns"} =>
               /\ DOMAIN lastOp.ret.values # {}
               /\ h.values = EmptyValues

====
